---- MODULE Spec2Model ----
(***************************************************************************)
(* rr_cache: the cache store / loader and the cache builder of rrCache     *)
(* (src/rr_cache/rr_cache.py) as a state machine.                          *)
(*                                                                         *)
(* One rrCache instance, its cache directory and its input-cache           *)
(* directory.  The code is single-threaded and synchronous, so a public    *)
(* operation (Load, Build, a lookup) is one action: the whole call, from   *)
(* entry to return or raise.  Every helper of the code is an operator from *)
(* a machine state to the set of machine states it can leave (a set,       *)
(* because the download capability and a parser on unverified bytes have   *)
(* several outcomes).  The machine state carries the log of what the call  *)
(* did, in order: existence tests, downloads, reads, parser calls, writes, *)
(* each entry with the state of the two directories at that moment.        *)
(*                                                                         *)
(* File contents are abstracted to tokens:                                 *)
(*   artifacts: "absent", "built" (the JSON this code's parsers produce    *)
(*     from the verified raw inputs), "other" (any other JSON mapping),    *)
(*     "null" (the JSON document null), "junk" (not a gzip/JSON document)  *)
(*   raw files: "absent", "good" (the bytes whose digest the registry      *)
(*     declares), "bad" (any other bytes)                                  *)
(***************************************************************************)
EXTENDS Integers, Sequences, FiniteSets, TLC

\* ------------------------------------------------------------------ bounds
\* Public calls made on the instance.
MaxOps == 1

\* Faults of the network (a download that raises or serves other bytes).
MaxFaults == 1

\* Public calls made one after the other on the instance, where what a call
\* leaves matters to the next one.
MaxCalls == 2

\* Items in a list or a dict handed to the serializer, and nesting of them.
MaxItems == 2

MaxDepth == 2

\* Rows of a table handed to a parser.
MaxRows == 3

\* Compounds on the left side of an equation.
MaxTerms == 2

\* Rows of the recipes file.
MaxRecipes == 2

\* Rows of the compounds file and of the property table.
MaxCompounds == 1

\* ------------------------------------------------------- names of the code
\* The attributes Build generates, in the order Build generates them.
AttrOrder == <<"cid_strc", "inchikey_cid", "cid_xref", "chebi_cid", "rr_reactions", "comp_xref", "deprecatedCompID_compid", "template_reactions">>

AllAttrs == {AttrOrder[i] : i \in 1..Len(AttrOrder)}

\* The raw input files the parsers read.
RawOrder == <<"compounds", "chem_xref", "rules", "comp_xref_tsv", "recipes">>

RawFiles == {RawOrder[i] : i \in 1..Len(RawOrder)}

ArtContents == {"absent", "built", "other", "null", "junk"}

RawContents == {"absent", "good", "bad"}

MemValues == {"unset", "None", "built", "other"}

\* sha512 of a file's bytes: injective on the content tokens.
Sha512(content) == <<"sha512", content>>

\* brs_utils.check_sha(file, fingerprint): digest of the bytes = expected.
\* The code passes the fingerprint itself or the registry entry that holds
\* it; both are the comparison with that fingerprint.
check_sha(content, fingerprint) == Sha512(content) = fingerprint

Range(s) == {s[i] : i \in 1..Len(s)}

\* ---------------------------------------------------------------- registry
\* The configuration document config_<cspace>.json as __init__ reads it:
\*   attrs    keys of cfg['cache'], in declaration order
\*   fp       cfg['cache'][a]['file']['fingerprint']
\*   url      cfg['cache'][a]['file']['url'] is non-empty
\*   sources  the files of cfg['sources'][*]['files'], in iteration order
\*   src_url  cfg['sources'][*]['url'] is non-empty
\* The raw files' declared fingerprint is always the digest of "good".
RegFull == [attrs |-> AttrOrder, fp |-> [a \in AllAttrs |-> Sha512("built")], url |-> [a \in AllAttrs |-> TRUE], sources |-> RawOrder, src_url |-> TRUE]

\* The registry's fingerprints are those of artifacts another version of the
\* parsers or of the data produced: what Build writes does not verify.
RegStale == [RegFull EXCEPT !.fp = [a \in AllAttrs |-> Sha512("other")]]

\* cfg['sources'] does not declare the files rr_reactions and
\* template_reactions depend on, so Build does not ensure them.
RegUnsourced == [RegFull EXCEPT !.sources = <<"compounds", "chem_xref", "comp_xref_tsv">>]

\* The registry declares no mirror URL for rr_reactions.
RegNoUrl == [RegFull EXCEPT !.url["rr_reactions"] = FALSE]

\* cfg['sources'] declares an empty URL for the raw files.
RegNoSrcUrl == [RegFull EXCEPT !.src_url = FALSE]

\* cfg['cache'] declares only cid_strc, rr_reactions and template_reactions.
RegMinimal == [RegFull EXCEPT !.attrs = <<"cid_strc", "rr_reactions", "template_reactions">>]

Registries == {RegFull, RegStale, RegUnsourced, RegNoUrl, RegNoSrcUrl, RegMinimal}

VARIABLES reg, raw, art, mem, attributes_list, own_list, op, arg, dnl, result, ret, log, nops, faults, budget

VARIABLES fn, input, output

\* reg is the class-level registry (rrCache.__cache, __cache_sources), which
\* every instance reads.  attributes_list is what self.__attributes_list
\* evaluates to on the instance: its own list once Load has assigned one
\* (own_list), the class-level list until then.
\* The instance and its directories; fn, input and output hold one call of a
\* static helper (a parser, the serializer), which touches none of them.
cachevars == <<reg, raw, art, mem, attributes_list, own_list, op, arg, dnl, result, ret, log, nops, faults, budget>>

vars == <<cachevars, fn, input, output>>

\* ----------------------------------------------------------- machine state
Registered(a) == a \in Range(reg.attrs)

Lookups == {"get_object", "get_list"}

\* The static helpers called on their own.
Helpers == {"store_load", "m_rr_reactions", "m_rr_reactions_legacy", "m_template_reactions", "read_equation", "m_template_reactions_legacy", "m_mnxm_strc", "m_mnxm_xref", "deprecatedMNX", "m_mnxc_xref", "checkCIDdeprecated", "checkRIDdeprecated"}

Exceptions == {"FileNotFoundError", "TypeError", "ParseError", "KeyError", "FileCorruptedError", "ConnectionError", "MissingSchema", "DecodeError"}

\* The state a call works on: the two directories, the instance's resident
\* attributes and attribute list (own: assigned on the instance), Build's locals cid_strc['attr'] and
\* cid_xref['attr'], the log, and the exception in flight ("" if none).
Cur == [raw |-> raw, art |-> art, mem |-> mem, lst |-> attributes_list, own |-> own_list, cid_strc |-> "None", cid_xref |-> "None", log |-> <<>>, faults |-> faults, exc |-> ""]

\* A log entry: what the call does (k), to what (n), and the two directories
\* as they are at that moment, before the effect of the entry.
Ev(m, kind, name) == [m EXCEPT !.log = Append(@, [k |-> kind, n |-> name, art |-> m.art, raw |-> m.raw])]

Throw(m, e) == [m EXCEPT !.exc = e]

\* Sequencing: F runs on the states S leaves normally; a state with an
\* exception in flight skips it.
Then(S, F(_)) == UNION {IF m.exc = "" THEN F(m) ELSE {m} : m \in S}

\* try: ... except e: log it and go on.
Catch(S, caught) == {IF m.exc \in caught THEN [Ev(m, "caught", m.exc) EXCEPT !.exc = ""] ELSE m : m \in S}

\* ----------------------------------------------------------------- helpers
\* A tier-2 test that sends every artifact to the download, found or not.
AlwaysFetch(m, a) == TRUE

\* os_path.exists(full_filename) is false: the tier-2 test of
\* _check_or_download_cache_to_disk.
ArtifactAbsent(m, a) == m.art[a] = "absent"

\* os_path.exists(f) and check_sha(f, rrCache.__cache[attribute])
ArtifactVerifies(m, a) == m.art[a] # "absent" /\ check_sha(m.art[a], reg.fp[a])

\* _load_json: json_load of the (gzip) file; JSON null is Python None.
LoadJson(content) == IF content = "null" THEN "None" ELSE content

\* The exception _load_json raises on this file, "" when it returns.
LoadJsonError(content) == IF content = "absent" THEN "FileNotFoundError" ELSE IF content = "junk" THEN "DecodeError" ELSE ""

\* _store_cache_to_file: json_dumps of the data; None is written as null.
StoreJson(data) == IF data = "None" THEN "null" ELSE data

\* The prebuilt artifact the mirror serves for a: the registry's fingerprint
\* is the digest of this content.
Prebuilt(a) == CHOOSE c \in {"built", "other"} : check_sha(c, reg.fp[a])

\* A JSON mapping the mirror could serve instead (file content changed).
NotPrebuilt(a) == CHOOSE c \in {"built", "other"} : ~check_sha(c, reg.fp[a])

\* What the injected download capability can do: write the file, raise a
\* connection error, or write a file with other content.  The last two are
\* faults of the network, bounded by MaxFaults.
DownloadOutcomes(m) == IF m.faults < MaxFaults THEN {"ok", "ConnectionError", "changed"} ELSE {"ok"}

Fault(m, o) == IF o = "ok" THEN m ELSE [m EXCEPT !.faults = @ + 1]

\* ------------------------------------------- _check_or_download_cache_to_disk
\* download(url + filename, full_filename) for a prebuilt artifact.
DownloadArtifact(m, a) ==
    {LET n == Fault(Ev(m, "download", a), o)
     IN  IF o = "ConnectionError" THEN Throw(Ev(n, "download_failed", a), "ConnectionError")
         ELSE [n EXCEPT !.art[a] = IF o = "ok" THEN Prebuilt(a) ELSE NotPrebuilt(a)]
     : o \in DownloadOutcomes(m)}

\* One iteration of the loop: a file that exists is checked (a mismatch is
\* only a warning), a file that does not is downloaded, unless its URL is
\* empty, which raises MissingSchema.
CheckOrDownloadOne(m, a) ==
    IF ~Registered(a) THEN {Throw(m, "KeyError")}
    ELSE IF ~ArtifactAbsent(m, a)
    THEN {Ev(Ev(m, "check", a), IF check_sha(m.art[a], reg.fp[a]) THEN "debug_already_downloaded" ELSE "warning_sha", a)}
    ELSE IF ~reg.url[a] THEN {Throw(Ev(m, "check", a), "MissingSchema")}
    ELSE DownloadArtifact(Ev(m, "check", a), a)

RECURSIVE CheckOrDownload(_, _)
CheckOrDownload(m, i) ==
    IF i > Len(m.lst) \/ m.exc # "" THEN {m}
    ELSE UNION {CheckOrDownload(n, i + 1) : n \in CheckOrDownloadOne(m, m.lst[i])}

\* ------------------------------------------------------- _check_or_load_cache
\* One iteration of the loop: an attribute whose value is None is read from
\* its artifact file; any other is already loaded.
CheckOrLoadOne(m, a) ==
    IF ~Registered(a) THEN Throw(m, "KeyError")
    ELSE IF m.mem[a] \notin {"None", "unset"} THEN Ev(m, "resident", a)
    ELSE IF LoadJsonError(m.art[a]) # "" THEN Throw(Ev(m, "read_failed", a), LoadJsonError(m.art[a]))
    ELSE [Ev(m, "read", a) EXCEPT !.mem[a] = LoadJson(m.art[a])]

RECURSIVE CheckOrLoadFrom(_, _)
CheckOrLoadFrom(m, i) ==
    IF i > Len(m.lst) \/ m.exc # "" THEN m
    ELSE CheckOrLoadFrom(CheckOrLoadOne(m, m.lst[i]), i + 1)

CheckOrLoad(m) == {CheckOrLoadFrom(Ev(m, "call", "_check_or_load_cache"), 1)}

\* ------------------------------------------------------ Build: raw inputs
\* __download_input_cache: an empty URL is logged and download is called all
\* the same (requests rejects the URL with MissingSchema).
DownloadRaw(m, f) ==
    IF ~reg.src_url THEN {Throw(Ev(m, "download_raw", f), "MissingSchema")}
    ELSE {LET n == Fault(Ev(m, "download_raw", f), o)
          IN  IF o = "ConnectionError" THEN Throw(Ev(n, "download_raw_failed", f), "ConnectionError")
              ELSE [n EXCEPT !.raw[f] = IF o = "ok" THEN "good" ELSE "bad"]
          : o \in DownloadOutcomes(m)}

\* A check that accepts whatever bytes the file holds.
AcceptAnyBytes(m, f) == TRUE

\* check_sha(filename, fingerprint) on a raw file that exists.
RawVerifies(m, f) == check_sha(m.raw[f], Sha512("good"))

\* A fetch that takes no notice of the file already in the directory.
FetchOverExisting(m, f) == FALSE

\* _download_input_cache: "if os_path.isfile(filename)" the file is kept as
\* it is, else it is fetched.
RawIsFile(m, f) == m.raw[f] # "absent"

\* _download_input_cache: fetch unless the file is there, then check_sha or
\* raise FileCorruptedError.
DownloadInputCache(m, f) ==
    Then(IF RawIsFile(m, f) THEN {m} ELSE DownloadRaw(m, f),
         LAMBDA n : {IF RawVerifies(n, f) THEN Ev(n, "raw_accepted", f) ELSE Throw(Ev(n, "raw_rejected", f), "FileCorruptedError")})

\* A fetch that logs the failure for a raw file and lets Build go on.
FetchOrGiveUp(m, f) ==
    Catch(IF RawIsFile(m, f) /\ RawVerifies(m, f) THEN {Ev(Ev(m, "check_raw", f), "raw_accepted", f)} ELSE DownloadInputCache(Ev(m, "check_raw", f), f),
          {"FileCorruptedError", "ConnectionError"})

\* One iteration of "FETCH INPUT_CACHE FILES" in Build.
FetchInputOne(m, f) ==
    IF m.raw[f] = "absent" THEN DownloadInputCache(Ev(m, "check_raw", f), f)
    ELSE IF ~RawVerifies(m, f) THEN DownloadInputCache(Ev(m, "check_raw", f), f)
    ELSE {Ev(Ev(m, "check_raw", f), "raw_accepted", f)}

RECURSIVE FetchInputs(_, _)
FetchInputs(m, i) ==
    IF i > Len(reg.sources) \/ m.exc # "" THEN {m}
    ELSE UNION {FetchInputs(n, i + 1) : n \in FetchInputOne(m, reg.sources[i])}

\* ---------------------------------------------------------- Build: parsers
\* What a parser makes of the raw files it reads.  A file Build verified is
\* "good" and parses to the built content.  A file the registry's sources do
\* not declare is read as it is: absent, it makes the parser return None or
\* raise (missing says which); with other bytes the parser raises or yields
\* other content.
ParseOutcomes(m, files, missing) ==
    IF \E f \in files : m.raw[f] = "absent" THEN {missing}
    ELSE IF \E f \in files : m.raw[f] = "bad" THEN {"other", "ParseError"}
    ELSE {"built"}

\* _m_inchikey_cid / _m_chebi_cid: the table derived from a mapping; the one
\* derived from the built mapping is the built one.  None is not iterable.
Derived(data) == IF data = "None" THEN "TypeError" ELSE data

\* _store_cache_to_file(data, f_<attribute>)
Store(m, a, data) == [Ev(m, "write", a) EXCEPT !.art[a] = StoreJson(data)]

\* A _gen_ function's else branch: run the parser, store what it returns.
ParseAndStore(m, a, files, missing) ==
    {IF r \in Exceptions THEN Throw(Ev(m, "parse", a), r)
     ELSE Store(Ev(m, IF r = "None" THEN "parser_none" ELSE "parse", a), a, r)
     : r \in ParseOutcomes(m, files, missing)}

\* The raw files each attribute is made from, directly or through the
\* attribute it is derived from (the files its _gen_ function hands to the
\* parser).
FileDeps(a) ==
    CASE a \in {"cid_strc", "inchikey_cid"} -> {"compounds", "chem_xref"}
      [] a \in {"cid_xref", "chebi_cid"} -> {"chem_xref"}
      [] a = "rr_reactions" -> {"rules"}
      [] a \in {"comp_xref", "deprecatedCompID_compid"} -> {"comp_xref_tsv"}
      [] a = "template_reactions" -> {"recipes"}

\* _gen_cid_strc_cid_name: the parser reads the file_deps of cid_strc and of
\* cid_xref (a KeyError if the registry has no cid_xref).
GenCidStrc(m) ==
    IF ~Registered("cid_strc") THEN {Throw(m, "KeyError")}
    ELSE IF ArtifactVerifies(m, "cid_strc")
    THEN {[Ev(m, "skip", "cid_strc") EXCEPT !.cid_strc = LoadJson(m.art["cid_strc"])]}
    ELSE IF ~Registered("cid_xref") THEN {Throw(m, "KeyError")}
    ELSE {IF n.exc = "" THEN [n EXCEPT !.cid_strc = LoadJson(n.art["cid_strc"])] ELSE n : n \in ParseAndStore(m, "cid_strc", {"compounds", "chem_xref"}, "FileNotFoundError")}

\* _gen_inchikey_cid: cid_strc['attr'] is reloaded from its file if empty.
GenInchikeyCid(m) ==
    IF ~Registered("inchikey_cid") THEN {Throw(m, "KeyError")}
    ELSE IF ArtifactVerifies(m, "inchikey_cid") THEN {Ev(m, "skip", "inchikey_cid")}
    ELSE IF m.cid_strc = "None" /\ LoadJsonError(m.art["cid_strc"]) # "" THEN {Throw(m, LoadJsonError(m.art["cid_strc"]))}
    ELSE LET src == IF m.cid_strc = "None" THEN LoadJson(m.art["cid_strc"]) ELSE m.cid_strc
         IN  IF Derived(src) \in Exceptions THEN {Throw(m, Derived(src))}
             ELSE {Store(m, "inchikey_cid", Derived(src))}

\* _gen_cid_xref
GenCidXref(m) ==
    IF ~Registered("cid_xref") THEN {Throw(m, "KeyError")}
    ELSE IF ArtifactVerifies(m, "cid_xref")
    THEN {[Ev(m, "skip", "cid_xref") EXCEPT !.cid_xref = LoadJson(m.art["cid_xref"])]}
    ELSE {IF n.exc = "" THEN [n EXCEPT !.cid_xref = LoadJson(n.art["cid_xref"])] ELSE n : n \in ParseAndStore(m, "cid_xref", {"chem_xref"}, "FileNotFoundError")}

\* _gen_chebi_cid
GenChebiCid(m) ==
    IF ~Registered("chebi_cid") THEN {Throw(m, "KeyError")}
    ELSE IF ArtifactVerifies(m, "chebi_cid") THEN {Ev(m, "skip", "chebi_cid")}
    ELSE IF Derived(m.cid_xref) \in Exceptions THEN {Throw(m, Derived(m.cid_xref))}
    ELSE {Store(m, "chebi_cid", Derived(m.cid_xref))}

\* _gen_rr_reactions: _m_rr_reactions(_legacy) returns None when the rules
\* file does not exist, and what it returns is stored.
GenRrReactions(m) ==
    IF ~Registered("rr_reactions") THEN {Throw(m, "KeyError")}
    ELSE IF ArtifactVerifies(m, "rr_reactions") THEN {Ev(m, "skip", "rr_reactions")}
    ELSE ParseAndStore(m, "rr_reactions", {"rules"}, "None")

\* _gen_comp_xref_deprecatedCompID_compid: both files are written unless
\* both verify.  _m_mnxc_xref returns None when the file does not exist and
\* unpacking None into two names raises TypeError.
GenCompXref(m) ==
    IF ~Registered("comp_xref") \/ ~Registered("deprecatedCompID_compid") THEN {Throw(m, "KeyError")}
    ELSE IF ArtifactVerifies(m, "comp_xref") /\ ArtifactVerifies(m, "deprecatedCompID_compid")
    THEN {Ev(Ev(m, "skip", "comp_xref"), "skip", "deprecatedCompID_compid")}
    ELSE {IF r \in Exceptions THEN Throw(Ev(m, "parse", "comp_xref"), r)
          ELSE Store(Store(Ev(m, "parse", "comp_xref"), "comp_xref", r), "deprecatedCompID_compid", r)
          : r \in ParseOutcomes(m, {"comp_xref_tsv"}, "TypeError")}

\* _gen_template_reactions tests nothing before generating: the
\* exists-and-check_sha test is commented out.
TemplateAlreadyBuilt(m) == FALSE

\* _gen_template_reactions: _m_template_reactions(_legacy) returns None when
\* the file does not exist, and what it returns is stored.
GenTemplateReactions(m) ==
    IF ~Registered("template_reactions") THEN {Throw(m, "KeyError")}
    ELSE IF TemplateAlreadyBuilt(m) THEN {Ev(m, "skip", "template_reactions")}
    ELSE ParseAndStore(m, "template_reactions", {"recipes"}, "None")

\* A Build that generates inchikey_cid and chebi_cid before the attributes
\* they are derived from.
BuildDependentsFirst(m) ==
    LET s0 == FetchInputs(Ev(m, "call", "Build"), 1)
        s1 == Then(s0, LAMBDA n : Catch(GenInchikeyCid(n), {"KeyError"}))
        s2 == Then(s1, GenCidStrc)
        s3 == Then(s2, LAMBDA n : Catch(Then(GenChebiCid(n), GenCidXref), {"KeyError"}))
        s4 == Then(s3, GenRrReactions)
        s5 == Then(s4, LAMBDA n : Catch(GenCompXref(n), {"KeyError"}))
        s6 == Then(s5, GenTemplateReactions)
    IN  Then(s6, LAMBDA n : {Ev(n, "return", "Build")})

\* Build: the raw inputs, then the _gen_ calls in the order of the code, the
\* optional ones inside try / except KeyError.
Build(m) ==
    LET s0 == FetchInputs(Ev(m, "call", "Build"), 1)
        s1 == Then(s0, GenCidStrc)
        s2 == Then(s1, LAMBDA n : Catch(GenInchikeyCid(n), {"KeyError"}))
        s3 == Then(s2, LAMBDA n : Catch(Then(GenCidXref(n), GenChebiCid), {"KeyError"}))
        s4 == Then(s3, GenRrReactions)
        s5 == Then(s4, LAMBDA n : Catch(GenCompXref(n), {"KeyError"}))
        s6 == Then(s5, GenTemplateReactions)
    IN  Then(s6, LAMBDA n : {Ev(n, "return", "Build")})

\* -------------------------------------------------------------------- Load
\* The values Load is called with: None, [], the full registry list (what
\* __init__ passes when load=True), one attribute, one attribute given as a
\* bare string (Load wraps it in a list), and a two-attribute list.
LoadInputs == {[kind |-> "none", v |-> <<>>], [kind |-> "list", v |-> <<>>], [kind |-> "list", v |-> reg.attrs], [kind |-> "list", v |-> <<"cid_strc">>], [kind |-> "list", v |-> <<"rr_reactions">>], [kind |-> "str", v |-> <<"template_reactions">>], [kind |-> "list", v |-> <<"template_reactions", "rr_reactions">>]}

\* A Load that resets every attribute of the instance, listed or not.
LoadResetsAll(m, a_in) ==
    LET lst == IF a_in.v # <<>> THEN a_in.v ELSE m.lst
    IN  [m EXCEPT !.lst = lst, !.own = @ \/ a_in.v # <<>>, !.mem = [a \in AllAttrs |-> "None"]]

\* "if attrs != []": the instance's list becomes attrs (a bare string
\* wrapped in a list); then every listed attribute is set to None.
LoadEnter(m, a_in) ==
    LET lst == IF a_in.v # <<>> THEN a_in.v ELSE m.lst
    IN  [m EXCEPT !.lst = lst, !.own = @ \/ a_in.v # <<>>, !.mem = [a \in AllAttrs |-> IF a \in Range(lst) THEN "None" ELSE m.mem[a]]]

\* The exceptions the except clause around the first _check_or_load_cache
\* of Load names (FileNotFoundError and the requests exceptions).
LoadCaught == {"FileNotFoundError", "RequestException", "InvalidSchema", "ConnectionError", "MissingSchema"}

\* A Load that calls Build a second time when Build raises.
LoadOrBuildAgain(m) ==
    UNION {IF n.exc \in LoadCaught
           THEN UNION {IF b.exc = "" THEN CheckOrLoad(b) ELSE Then(Build([b EXCEPT !.exc = ""]), CheckOrLoad)
                       : b \in Build([Ev(n, "caught", n.exc) EXCEPT !.exc = ""])}
           ELSE {n}
           : n \in CheckOrLoad(m)}

\* The try / except of Load: a first pass that raises one of LoadCaught is
\* followed by Build and one more pass, outside any try.
LoadOrBuild(m) ==
    UNION {IF n.exc \in LoadCaught
           THEN Then(Build([Ev(n, "caught", n.exc) EXCEPT !.exc = ""]), CheckOrLoad)
           ELSE {n}
           : n \in CheckOrLoad(m)}

\* A Load that takes None for the default list, as it takes [].
LoadNoneAsDefault(m, a_in, d) ==
    LET m1 == LoadEnter(Ev(m, "call", "Load"), a_in)
        s2 == IF d THEN {m1} ELSE Catch(CheckOrDownload(m1, 1), {"MissingSchema"})
    IN  Then(Then(s2, LoadOrBuild), LAMBDA n : {Ev(n, "return", "Load")})

\* Load(attrs, do_not_dwnl_cache)
Load(m, a_in, d) ==
    IF a_in.kind = "none" THEN {Ev(Ev(m, "call", "Load"), "return", "Load")}
    ELSE LET m1 == LoadEnter(Ev(m, "call", "Load"), a_in)
             s2 == IF d THEN {m1} ELSE Catch(CheckOrDownload(m1, 1), {"MissingSchema"})
         IN  Then(Then(s2, LoadOrBuild), LAMBDA n : {Ev(n, "return", "Load")})

\* ----------------------------------------------------------------- lookups
\* get_compound .. get_list_of_reaction_rules: __get_object and
\* __get_list_of_objects on the attribute each one names.
LookupAttrs == {"cid_strc", "template_reactions", "rr_reactions"}

\* An id that is a key of the loaded mapping and one that is not.
Ids == {"known", "unknown"}

\* if not self.__hasattr(attr): hasattr(self, '__'+attr)
HasAttr(m, a) == m.mem[a] # "unset"

\* self.get(attr)[id] / self.get(attr).keys(): the value returned, or the
\* exception raised.
LookupValue(kind, value, id) ==
    IF value \in {"None", "unset"} THEN "TypeError"
    ELSE IF kind = "get_list" THEN "keys"
    ELSE IF id = "known" THEN "record"
    ELSE "KeyError"

\* The body of the try of __get_object / __get_list_of_objects.  The Load it
\* triggers takes Load's default do_not_dwnl_cache.
LookupBody(m, kind, a, id, d) ==
    Then(IF HasAttr(m, a) THEN {m} ELSE Load(m, [kind |-> "list", v |-> <<a>>], d),
         LAMBDA n : {IF LookupValue(kind, n.mem[a], id) \in Exceptions THEN Throw(n, LookupValue(kind, n.mem[a], id)) ELSE n})

\* A lookup without the except clause: what its body raises reaches the
\* caller.
LookupUnguarded(m, kind, a, id, d) == LookupBody(Ev(m, "call", kind), kind, a, id, d)

\* except Exception as e: self.logger.error(str(e)) -- and None is returned.
Lookup(m, kind, a, id, d) == {IF n.exc # "" THEN [Ev(n, "swallowed", n.exc) EXCEPT !.exc = ""] ELSE Ev(n, "return", kind) : n \in LookupBody(Ev(m, "call", kind), kind, a, id, d)}

\* ----------------------------------------------------------------- actions
TypeOK ==
    /\ reg \in Registries
    /\ raw \in [RawFiles -> RawContents]
    /\ art \in [AllAttrs -> ArtContents]
    /\ mem \in [AllAttrs -> MemValues]
    /\ Range(attributes_list) \subseteq AllAttrs
    /\ own_list \in BOOLEAN
    /\ op \in {"none", "Load", "Build", "get", "__init__"} \cup Lookups
    /\ dnl \in BOOLEAN
    /\ result \in {"ok"} \cup Exceptions
    /\ ret \in {"None", "record", "keys", "built", "other"}
    /\ budget \in {MaxOps, MaxCalls}
    /\ nops \in 0..budget
    /\ faults \in 0..MaxFaults

    /\ fn \in {"none"} \cup Helpers

\* The directories an operation can find.  The input cache directory is
\* empty or complete, the cache directory is empty or holds the prebuilt
\* artifacts, and at most one file of the two directories was since deleted,
\* replaced or damaged.
RawDirs == {[f \in RawFiles |-> "absent"], [f \in RawFiles |-> "good"]}

ArtDirs == {[a \in AllAttrs |-> "absent"], [a \in AllAttrs |-> IF Registered(a) THEN Prebuilt(a) ELSE "absent"]}

DamagedRaw(r) == {[r EXCEPT ![f] = c] : f \in RawFiles, c \in RawContents}

DamagedArt(d) == {[d EXCEPT ![a] = c] : a \in Range(reg.attrs), c \in ArtContents \ {"null"}}

\* After rrCache(load=False): the registry is read, the class attribute list
\* is its keys, nothing is resident.
Init ==
    /\ reg \in Registries
    /\ \E r \in RawDirs, d \in ArtDirs :
        \/ raw \in DamagedRaw(r) /\ art = d
        \/ raw = r /\ art \in DamagedArt(d)
    /\ mem = [a \in AllAttrs |-> "unset"]
    /\ attributes_list = reg.attrs
    /\ own_list = FALSE
    /\ op = "none"
    /\ arg = <<>>
    /\ dnl = FALSE
    /\ result = "ok"
    /\ ret = "None"
    /\ log = <<>>
    /\ nops = 0
    /\ faults = 0
    /\ budget = MaxOps
    /\ fn = "none"
    /\ input = <<>>
    /\ output = <<>>

\* The same instance with directories nothing has damaged, for calls made
\* one after the other.
InitSeq ==
    /\ reg \in Registries
    /\ raw \in RawDirs
    /\ art \in ArtDirs
    /\ mem = [a \in AllAttrs |-> "unset"]
    /\ attributes_list = reg.attrs
    /\ own_list = FALSE
    /\ op = "none"
    /\ arg = <<>>
    /\ dnl = FALSE
    /\ result = "ok"
    /\ ret = "None"
    /\ log = <<>>
    /\ nops = 0
    /\ faults = 0
    /\ budget = MaxCalls
    /\ fn = "none"
    /\ input = <<>>
    /\ output = <<>>

\* The call is over: its effects on the directories and on the instance,
\* and what its caller sees (a normal return or the exception).
Commit(n) ==
    /\ raw' = n.raw
    /\ art' = n.art
    /\ mem' = n.mem
    /\ attributes_list' = n.lst
    /\ own_list' = n.own
    /\ faults' = n.faults
    /\ result' = IF n.exc = "" THEN "ok" ELSE n.exc
    /\ log' = IF n.exc = "" THEN n.log ELSE Ev(n, "raise", n.exc).log
    /\ nops' = nops + 1
    /\ UNCHANGED <<reg, budget, fn, input, output>>

LoadCall ==
    /\ nops < budget
    /\ \E a_in \in LoadInputs, d \in BOOLEAN :
        /\ op' = "Load"
        /\ arg' = a_in
        /\ dnl' = d
        /\ ret' = "None"
        /\ \E n \in Load(Cur, a_in, d) : Commit(n)

BuildCall ==
    /\ nops < budget
    /\ op' = "Build"
    /\ arg' = <<>>
    /\ ret' = "None"
    /\ UNCHANGED dnl
    /\ \E n \in Build(Cur) : Commit(n)

\* A lookup.  The Load it triggers takes Load's default do_not_dwnl_cache,
\* DEFAULTS['do_not_dwnl_cache'], a value of the installation: either one.
LookupCall ==
    /\ nops < budget
    /\ \E kind \in Lookups, a \in LookupAttrs, id \in Ids, d \in BOOLEAN :
        /\ kind = "get_list" => id = "known"
        /\ op' = kind
        /\ arg' = <<a, id>>
        /\ dnl' = d
        /\ \E n \in Lookup(Cur, kind, a, id, d) :
            /\ Commit(n)
            /\ ret' = IF n.log[Len(n.log)].k = "swallowed" THEN "None" ELSE LookupValue(kind, n.mem[a], id)

\* A get that answers an empty structure for an attribute never set.
GetEmpty(value) == IF value = "unset" THEN "empty" ELSE value

\* get(attr): the value of the instance attribute '__'+attr; None when it
\* was never set (the AttributeError is logged).
GetValue(value) == IF value = "unset" THEN "None" ELSE value

GetCall ==
    /\ nops < budget
    /\ \E a \in AllAttrs :
        /\ op' = "get"
        /\ arg' = <<a>>
        /\ ret' = GetValue(mem[a])
        /\ UNCHANGED dnl
        /\ Commit(Ev(Ev(Cur, "call", "get"), "return", "get"))

Next ==
    \/ LoadCall
    \/ BuildCall
    \/ LookupCall
    \/ GetCall

Spec == Init /\ [][Next]_vars

SpecSeq == InitSeq /\ [][Next]_vars

\* rrCache(cspace, load=False) for another chemical space, while the
\* instance exists: __init__ assigns the configuration it reads to the class
\* (rrCache.__cache_sources, rrCache.__cache, rrCache.__type,
\* rrCache.__attributes_list).  The new instance has directories of its own.
Construct ==
    /\ nops < budget
    /\ \E cfg \in Registries \ {reg} :
        /\ reg' = cfg
        /\ attributes_list' = IF own_list THEN attributes_list ELSE cfg.attrs
    /\ op' = "__init__"
    /\ arg' = <<>>
    /\ result' = "ok"
    /\ ret' = "None"
    /\ log' = <<>>
    /\ nops' = nops + 1
    /\ UNCHANGED <<raw, art, mem, own_list, dnl, faults, budget, fn, input, output>>

\* Calls on the instance, and instances constructed beside it.
SpecShared == InitSeq /\ [][Next \/ Construct]_vars

\* ------------------------------------------------------------ log queries
\* The entries of the last call's log of one kind, and of one kind and name.
Events(kind) == {i \in DOMAIN log : log[i].k = kind}

EventsOn(kind, name) == {i \in DOMAIN log : log[i].k = kind /\ log[i].n = name}

\* The artifact of a exists in the directory dir and has the fingerprint the
\* registry expects.
Verifies(dir, a) == dir[a] # "absent" /\ check_sha(dir[a], reg.fp[a])

\* Build was entered by the last call and did not return.
BuildRaised == EventsOn("call", "Build") # {} /\ EventsOn("return", "Build") = {}

\* ------------------------------------------------- an instance left alone
\* rrCache(load=False) on empty directories: the instance the static helpers
\* are called beside.
Idle ==
    /\ reg = RegFull
    /\ raw = [f \in RawFiles |-> "absent"]
    /\ art = [a \in AllAttrs |-> "absent"]
    /\ mem = [a \in AllAttrs |-> "unset"]
    /\ attributes_list = reg.attrs
    /\ own_list = FALSE
    /\ op = "none"
    /\ arg = <<>>
    /\ dnl = FALSE
    /\ result = "ok"
    /\ ret = "None"
    /\ log = <<>>
    /\ nops = 0
    /\ faults = 0
    /\ budget = MaxOps

\* A static helper is about to be called on an argument drawn from Inputs.
InitHelper(Inputs) == Idle /\ fn = "none" /\ input \in Inputs /\ output = <<>>

\* ------------------------------------------------------ JSON serialization
\* Text is a sequence of characters.
DigitChars == <<"0", "1", "2", "3", "4", "5", "6", "7", "8", "9">>

\* str(n) of a non-negative int.
RECURSIVE Digits(_)
Digits(n) == IF n < 10 THEN <<DigitChars[n + 1]>> ELSE Append(Digits(n \div 10), DigitChars[(n % 10) + 1])

\* int(text) of a run of digits.
RECURSIVE ParseInt(_)
ParseInt(t) ==
    IF t = <<>> THEN 0
    ELSE 10 * ParseInt(SubSeq(t, 1, Len(t) - 1)) + ((CHOOSE d \in 1..10 : DigitChars[d] = t[Len(t)]) - 1)

\* Python values that json writes, each the value v of its type t: "null"
\* with <<>>, "int" with the number, "float" with <<integer part, decimal
\* digits>>, "str" with the characters, "list" with the elements, "dict" with
\* the items <<key, value>> in insertion order.
J(t, v) == [x \in {t} |-> v]

\* type(x), and x as the model holds it.
Tag(x) == CHOOSE f \in DOMAIN x : TRUE

Val(x) == x[Tag(x)]

\* str < str: by code point, a prefix first.
RECURSIVE StrLt(_, _)
StrLt(a, b) ==
    LET codes == <<" ", "\"", ",", ".", "0", "1", "2", "3", "4", "5", "6", "7", "8", "9", ":", "[", "]", "a", "b", "l", "n", "u", "{", "}">>
        ord(c) == CHOOSE i \in 1..Len(codes) : codes[i] = c
    IN  IF b = <<>> THEN FALSE
        ELSE IF a = <<>> THEN TRUE
        ELSE IF a[1] # b[1] THEN ord(a[1]) < ord(b[1])
        ELSE StrLt(Tail(a), Tail(b))

\* sorted(dct.items()): the items by key.
RECURSIVE SortedItems(_)
SortedItems(items) ==
    IF items = <<>> THEN <<>>
    ELSE LET i == CHOOSE i \in 1..Len(items) : \A j \in 1..Len(items) : ~StrLt(items[j][1], items[i][1])
         IN  <<items[i]>> \o SortedItems(SubSeq(items, 1, i - 1) \o SubSeq(items, i + 1, Len(items)))

\* json.dumps(data, sort_keys=sort_keys, separators=(item_sep, key_sep)).
RECURSIVE json_dumps(_, _, _, _)
RECURSIVE DumpList(_, _, _, _)
RECURSIVE DumpItems(_, _, _, _)
json_dumps(x, sort_keys, item_sep, key_sep) ==
    CASE Tag(x) = "null" -> <<"n", "u", "l", "l">>
      [] Tag(x) = "int" -> Digits(Val(x))
      [] Tag(x) = "float" -> Digits(Val(x)[1]) \o <<".">> \o Val(x)[2]
      [] Tag(x) = "str" -> <<"\"">> \o Val(x) \o <<"\"">>
      [] Tag(x) = "list" -> <<"[">> \o DumpList(Val(x), sort_keys, item_sep, key_sep) \o <<"]">>
      [] Tag(x) = "dict" -> <<"{">> \o DumpItems(IF sort_keys THEN SortedItems(Val(x)) ELSE Val(x), sort_keys, item_sep, key_sep) \o <<"}">>

DumpList(xs, sort_keys, item_sep, key_sep) ==
    IF xs = <<>> THEN <<>>
    ELSE json_dumps(xs[1], sort_keys, item_sep, key_sep)
         \o (IF Len(xs) > 1 THEN item_sep ELSE <<>>)
         \o DumpList(Tail(xs), sort_keys, item_sep, key_sep)

DumpItems(items, sort_keys, item_sep, key_sep) ==
    IF items = <<>> THEN <<>>
    ELSE <<"\"">> \o items[1][1] \o <<"\"">> \o key_sep \o json_dumps(items[1][2], sort_keys, item_sep, key_sep)
         \o (IF Len(items) > 1 THEN item_sep ELSE <<>>)
         \o DumpItems(Tail(items), sort_keys, item_sep, key_sep)

\* json.load: a recursive-descent reading of the text from position i; the
\* value read and the position after it.
RECURSIVE SkipWs(_, _)
SkipWs(t, i) == IF i <= Len(t) /\ t[i] = " " THEN SkipWs(t, i + 1) ELSE i

RECURSIVE ScanTo(_, _, _)
ScanTo(t, i, stop) == IF i > Len(t) \/ t[i] \in stop THEN i ELSE ScanTo(t, i + 1, stop)

RECURSIVE ScanDigits(_, _)
ScanDigits(t, i) == IF i <= Len(t) /\ t[i] \in Range(DigitChars) THEN ScanDigits(t, i + 1) ELSE i

\* dict(pairs): a key read again replaces the value at the key's place.
SetItem(items, k, x) ==
    IF \E i \in 1..Len(items) : items[i][1] = k
    THEN [i \in 1..Len(items) |-> IF items[i][1] = k THEN <<k, x>> ELSE items[i]]
    ELSE Append(items, <<k, x>>)

RECURSIVE ParseValue(_, _)
RECURSIVE ParseElements(_, _, _)
RECURSIVE ParseMembers(_, _, _)
ParseValue(t, i0) ==
    LET i == SkipWs(t, i0)
    IN  CASE t[i] = "n" -> [v |-> J("null", <<>>), j |-> i + 4]
          [] t[i] = "\"" -> LET e == ScanTo(t, i + 1, {"\""}) IN [v |-> J("str", SubSeq(t, i + 1, e - 1)), j |-> e + 1]
          [] t[i] = "[" -> IF t[SkipWs(t, i + 1)] = "]" THEN [v |-> J("list", <<>>), j |-> SkipWs(t, i + 1) + 1]
                           ELSE ParseElements(t, i + 1, <<>>)
          [] t[i] = "{" -> IF t[SkipWs(t, i + 1)] = "}" THEN [v |-> J("dict", <<>>), j |-> SkipWs(t, i + 1) + 1]
                           ELSE ParseMembers(t, i + 1, <<>>)
          [] t[i] \in Range(DigitChars) -> LET e == ScanDigits(t, i)
                              IN  IF e <= Len(t) /\ t[e] = "."
                                  THEN LET g == ScanDigits(t, e + 1)
                                       IN  [v |-> J("float", <<ParseInt(SubSeq(t, i, e - 1)), SubSeq(t, e + 1, g - 1)>>), j |-> g]
                                  ELSE [v |-> J("int", ParseInt(SubSeq(t, i, e - 1))), j |-> e]

ParseElements(t, i, acc) ==
    LET r == ParseValue(t, i)
        k == SkipWs(t, r.j)
    IN  IF t[k] = "," THEN ParseElements(t, k + 1, Append(acc, r.v))
        ELSE [v |-> J("list", Append(acc, r.v)), j |-> k + 1]

ParseMembers(t, i, acc) ==
    LET q == SkipWs(t, i)
        e == ScanTo(t, q + 1, {"\""})
        c == SkipWs(t, e + 1)
        r == ParseValue(t, c + 1)
        k == SkipWs(t, r.j)
        items == SetItem(acc, SubSeq(t, q + 1, e - 1), r.v)
    IN  IF t[k] = "," THEN ParseMembers(t, k + 1, items)
        ELSE [v |-> J("dict", items), j |-> k + 1]

json_load(t) == ParseValue(t, 1).v

\* Python's ==: lists in order, dicts whatever the order of their items.
RECURSIVE PyEq(_, _)
PyEq(x, y) ==
    IF Tag(x) # Tag(y) THEN FALSE
    ELSE CASE Tag(x) = "list" -> Len(Val(x)) = Len(Val(y)) /\ \A i \in 1..Len(Val(x)) : PyEq(Val(x)[i], Val(y)[i])
           [] Tag(x) = "dict" -> /\ Len(Val(x)) = Len(Val(y))
                              /\ \A i \in 1..Len(Val(x)) : \E j \in 1..Len(Val(y)) : Val(x)[i][1] = Val(y)[j][1] /\ PyEq(Val(x)[i][2], Val(y)[j][2])
           [] OTHER -> Val(x) = Val(y)

\* filename.endswith('.gz') or filename.endswith('.zip')
Compressed(filename) == filename.ext \in {".gz", ".zip"}

\* A store that writes plain text whatever the file is called.
StoreNeverCompressed(data, filename, now) == [gzip |-> FALSE, payload |-> json_dumps(data, FALSE, <<",", " ">>, <<":", " ">>)]

\* A store that lets gzip stamp the member with the time of the call.
StoreStamped(data, filename, now) ==
    IF Compressed(filename)
    THEN [gzip |-> TRUE, mtime |-> now, name |-> filename.stem, payload |-> json_dumps(data, TRUE, <<",">>, <<":">>)]
    ELSE [gzip |-> FALSE, payload |-> json_dumps(data, FALSE, <<",", " ">>, <<":", " ">>)]

\* _store_cache_to_file(data, filename) called at time now: the bytes of the
\* file written.  A compressed name: the compact text with sorted keys, in a
\* gzip member of mtime 0 (the member's header names the file).  Any other
\* name: json.dump with its defaults.
store_cache_to_file(data, filename, now) ==
    IF Compressed(filename)
    THEN [gzip |-> TRUE, mtime |-> 0, name |-> filename.stem, payload |-> json_dumps(data, TRUE, <<",">>, <<":">>)]
    ELSE [gzip |-> FALSE, payload |-> json_dumps(data, FALSE, <<",", " ">>, <<":", " ">>)]

\* _load_json(filename) on a file holding these bytes: gzip_open for a
\* compressed name, open for any other, then json.load.
load_json(file, filename) ==
    IF Compressed(filename) = file.gzip THEN json_load(file.payload) ELSE [raise |-> "BadGzipFile"]

\* The values stored: scalars, then lists and dicts of at most MaxItems
\* items, nested MaxDepth deep.
Scalars == {J("null", <<>>), J("int", 0), J("int", 12), J("float", <<0, <<"5">>>>), J("str", <<"a">>)}

SeqsUpTo(S, n) == UNION {[1..k -> S] : k \in 0..n}

DictsOver(S) == {J("dict", items) : items \in {q \in SeqsUpTo({<<"a">>, <<"b">>} \X S, MaxItems) : \A i, j \in 1..Len(q) : i # j => q[i][1] # q[j][1]}}

RECURSIVE JsonValues(_)
JsonValues(d) ==
    IF d = 0 THEN Scalars
    ELSE LET sub == JsonValues(d - 1)
         IN  sub \cup {J("list", xs) : xs \in SeqsUpTo(sub, MaxItems)} \cup DictsOver(sub)

\* The times a store can be called at.
Clock == 0..1

\* _store_cache_to_file(data, filename) then _load_json(filename).
StoreThenLoad ==
    \E now \in Clock :
        /\ fn = "none"
        /\ fn' = "store_load"
        /\ output' = [file |-> store_cache_to_file(input.data, input.filename, now),
                      loaded |-> load_json(store_cache_to_file(input.data, input.filename, now), input.filename)]
        /\ UNCHANGED <<cachevars, input>>

SpecJson == InitHelper([data : JsonValues(MaxDepth), filename : [stem : {"cache"}, ext : {".gz", ".zip", ".json"}]]) /\ [][StoreThenLoad]_vars

\* ---------------------------------------------------------------- parsers
\* A dict as a function: d[k] = v added or replaced.
Put(d, k, v) == [x \in DOMAIN d \cup {k} |-> IF x = k THEN v ELSE d[x]]

EmptyDict == [x \in {} |-> {}]

\* None, where a parser returns it in place of a dict.
PyNone == [none |-> TRUE]

\* (1 if row['DIRECTION'] == 'L2R' else -1)
RelDirection(row) == IF row.DIRECTION = "L2R" THEN 1 ELSE -1

\* A parser in which the direction of the latest row replaces the stored one.
LastDirectionWins(rr_reactions, row) ==
    LET t == row.TEMPLATE_ID
        r == row.REACTION_ID
        rule == IF t \in DOMAIN rr_reactions THEN rr_reactions[t] ELSE EmptyDict
    IN  Put(rr_reactions, t, Put(rule, r, [rule_id |-> t, reac_id |-> r, rel_direction |-> RelDirection(row)]))

\* _m_rr_reactions: the body of the loop for one row.  A pair seen for the
\* first time gets its link; a pair seen again keeps it, its direction set
\* to 0 when it is not 0 and the row's direction differs from it.
RrRow(rr_reactions, row) ==
    LET t == row.TEMPLATE_ID
        r == row.REACTION_ID
        rule == IF t \in DOMAIN rr_reactions THEN rr_reactions[t] ELSE EmptyDict
    IN  IF r \notin DOMAIN rule
        THEN Put(rr_reactions, t, Put(rule, r, [rule_id |-> t, reac_id |-> r, rel_direction |-> RelDirection(row)]))
        ELSE IF rule[r].rel_direction # 0 /\ RelDirection(row) # rule[r].rel_direction
             THEN Put(rr_reactions, t, Put(rule, r, [rule[r] EXCEPT !.rel_direction = 0]))
             ELSE Put(rr_reactions, t, rule)

RECURSIVE RrRows(_, _)
RrRows(rr_reactions, rows) == IF rows = <<>> THEN rr_reactions ELSE RrRows(RrRow(rr_reactions, Head(rows)), Tail(rows))

\* _m_rr_reactions(rules_rall_path): None when the file does not exist.
m_rr_reactions(file) == IF ~file.exists THEN PyNone ELSE RrRows(EmptyDict, file.rows)

ParseRules ==
    /\ fn = "none"
    /\ fn' = "m_rr_reactions"
    /\ output' = m_rr_reactions(input)
    /\ UNCHANGED <<cachevars, input>>

\* The file is missing, or holds rows naming a rule, a reaction and a direction.
SpecRules ==
    InitHelper({[exists |-> FALSE, rows |-> <<>>]}
               \cup {[exists |-> TRUE, rows |-> rows] :
                        rows \in SeqsUpTo([TEMPLATE_ID : {"R1", "R2"}, REACTION_ID : {"RX1", "RX2"}, DIRECTION : {"L2R", "R2L"}], MaxRows)})
    /\ [][ParseRules]_vars

\* ------------------------------------------------------- recipe equations
\* str.split(sep) for a separator of one character.
RECURSIVE Split(_, _)
Split(t, sep) ==
    LET e == ScanTo(t, 1, {sep})
    IN  IF e > Len(t) THEN <<t>> ELSE <<SubSeq(t, 1, e - 1)>> \o Split(SubSeq(t, e + 1, Len(t)), sep)

\* \w of the regular expressions.
IsWord(c) == c \in {"M", "R", "X", "c", "n", "N", "m", "q", "x", "_"} \cup Range(DigitChars)

RECURSIVE ScanWord(_, _)
ScanWord(t, i) == IF i <= Len(t) /\ IsWord(t[i]) THEN ScanWord(t, i + 1) ELSE i

\* The alternatives of the coefficient group of regex_str, in its order.
CoefAlternatives ==
    <<[kind |-> "literal", text |-> <<"(", "n", "-", "1", ")">>],
      [kind |-> "digits", text |-> <<>>],
      [kind |-> "literal", text |-> <<"4", "n">>],
      [kind |-> "literal", text |-> <<"3", "n">>],
      [kind |-> "literal", text |-> <<"2", "n">>],
      [kind |-> "literal", text |-> <<"n">>],
      [kind |-> "literal", text |-> <<"(", "n", ")">>],
      [kind |-> "literal", text |-> <<"(", "N", ")">>],
      [kind |-> "literal", text |-> <<"(", "2", "n", ")">>],
      [kind |-> "literal", text |-> <<"(", "x", ")">>],
      [kind |-> "literal", text |-> <<"N">>],
      [kind |-> "literal", text |-> <<"m">>],
      [kind |-> "literal", text |-> <<"q">>],
      [kind |-> "literal", text |-> <<"(", "n", "-", "2", ")">>],
      [kind |-> "decimal", text |-> <<>>]>>

\* Where the coefficient group can end when it starts at t[i] and takes the
\* alternative alt: the positions after it, in the order the matcher tries.
AltEnds(t, i, alt) ==
    LET e == ScanDigits(t, i)
        g == ScanDigits(t, e + 1)
    IN  CASE alt.kind = "literal" ->
                IF i + Len(alt.text) - 1 <= Len(t) /\ SubSeq(t, i, i + Len(alt.text) - 1) = alt.text THEN <<i + Len(alt.text)>> ELSE <<>>
          [] alt.kind = "digits" -> [k \in 1..(e - i) |-> e - k + 1]
          [] alt.kind = "decimal" ->
                IF e > i /\ e <= Len(t) /\ t[e] = "." THEN [k \in 1..(g - e - 1) |-> g - k + 1] ELSE <<>>

RECURSIVE CoefEnds(_, _, _)
CoefEnds(t, i, a) == IF a > Len(CoefAlternatives) THEN <<>> ELSE AltEnds(t, i, CoefAlternatives[a]) \o CoefEnds(t, i, a + 1)

\* The rest of regex_str after a coefficient ending before t[e]: a space,
\* the compound id and, when the equation holds an '@', '@' and a word.
\* The position after the match, or 0.
RestEnd(t, e, at) ==
    IF ~(e + 1 <= Len(t) /\ t[e] = " " /\ IsWord(t[e + 1])) THEN 0
    ELSE LET w == ScanWord(t, e + 1)
         IN  IF ~at THEN w
             ELSE IF w + 1 <= Len(t) /\ t[w] = "@" /\ IsWord(t[w + 1]) THEN ScanWord(t, w + 1) ELSE 0

\* re_findall(regex_str, t) from position i: the (coefficient, compound)
\* pairs of the matches, left to right, without overlap.
RECURSIVE FindAll(_, _, _)
FindAll(t, i, at) ==
    IF i > Len(t) THEN <<>>
    ELSE LET ends == CoefEnds(t, i, 1)
             ok == {k \in 1..Len(ends) : RestEnd(t, ends[k], at) # 0}
         IN  IF ok = {} THEN FindAll(t, i + 1, at)
             ELSE LET e == ends[CHOOSE k \in ok : \A l \in ok : k <= l]
                  IN  <<<<SubSeq(t, i, e - 1), SubSeq(t, e + 1, ScanWord(t, e + 1) - 1)>>>> \o FindAll(t, RestEnd(t, e, at), at)

\* A number: its integer part and its decimal digits (none for an integer).
Num(i, f) == <<i, f>>

\* DEFAULT_STOICHIO_RESCUE
DEFAULT_STOICHIO_RESCUE ==
    {<<<<"4", "n">>, 4>>, <<<<"3", "n">>, 3>>, <<<<"2", "n">>, 2>>, <<<<"n">>, 1>>,
     <<<<"(", "n", ")">>, 1>>, <<<<"(", "N", ")">>, 1>>, <<<<"(", "2", "n", ")">>, 2>>, <<<<"(", "x", ")">>, 1>>,
     <<<<"N">>, 1>>, <<<<"m">>, 1>>, <<<<"q">>, 1>>,
     <<<<"0", ".", "0", "1">>, 1>>, <<<<"0", ".", "1">>, 1>>, <<<<"0", ".", "5">>, 1>>, <<<<"1", ".", "5">>, 1>>,
     <<<<"0", ".", "0", "2">>, 1>>, <<<<"0", ".", "2">>, 1>>,
     <<<<"(", "n", "-", "1", ")">>, 0>>, <<<<"(", "n", "-", "2", ")">>, -1>>}

\* float(text): the number, or "ValueError".
RECURSIVE StripZeros(_)
StripZeros(f) == IF f # <<>> /\ f[Len(f)] = "0" THEN StripZeros(SubSeq(f, 1, Len(f) - 1)) ELSE f

Float(text) ==
    LET e == ScanDigits(text, 1)
    IN  IF e = 1 THEN "ValueError"
        ELSE IF e > Len(text) THEN Num(ParseInt(text), <<>>)
        ELSE IF text[e] = "." /\ ScanDigits(text, e + 1) > Len(text)
             THEN Num(ParseInt(SubSeq(text, 1, e - 1)), StripZeros(SubSeq(text, e + 1, Len(text))))
             ELSE "ValueError"

\* _read_equation: the coefficient of one match: the table first, then float.
Coefficient(coef) ==
    IF \E p \in DEFAULT_STOICHIO_RESCUE : p[1] = coef
    THEN Num((CHOOSE p \in DEFAULT_STOICHIO_RESCUE : p[1] = coef)[2], <<>>)
    ELSE Float(coef)

\* _read_equation: the loop over the matches of one side; None as soon as a
\* coefficient cannot be converted.
RECURSIVE ReadSide(_, _)
ReadSide(found, acc) ==
    IF found = <<>> THEN acc
    ELSE IF Coefficient(found[1][1]) = "ValueError" THEN PyNone
    ELSE ReadSide(Tail(found), Put(acc, found[1][2], Coefficient(found[1][1])))

\* A reader that takes the first two sides of whatever '=' splits.
ReadFirstTwoSides(eq) ==
    LET sides == Split(eq, "=")
        at == \E i \in 1..Len(eq) : eq[i] = "@"
    IN  IF Len(sides) < 2 THEN PyNone
        ELSE [left |-> ReadSide(FindAll(sides[1], 1, at), EmptyDict), right |-> ReadSide(FindAll(sides[2], 1, at), EmptyDict)]

\* _read_equation(eq, rxn_id): None unless eq has exactly one '=', else the
\* compounds of the two sides with their coefficients.
read_equation(eq) ==
    LET sides == Split(eq, "=")
        at == \E i \in 1..Len(eq) : eq[i] = "@"
    IN  IF Len(sides) # 2 THEN PyNone
        ELSE LET left == ReadSide(FindAll(sides[1], 1, at), EmptyDict)
                 right == ReadSide(FindAll(sides[2], 1, at), EmptyDict)
             IN  IF left = PyNone \/ right = PyNone THEN PyNone ELSE [left |-> left, right |-> right]

\* Equations as the recipes file writes them: terms "coefficient compound"
\* (the compound with its compartment or without), joined by " + " into
\* sides, the sides joined by " = ".
Sides(C, n) == SeqsUpTo([coef : C, id : {<<"M", "1">>, <<"M", "2">>}], n)

RECURSIVE Join(_, _)
Join(parts, sep) == IF parts = <<>> THEN <<>> ELSE IF Len(parts) = 1 THEN parts[1] ELSE parts[1] \o sep \o Join(Tail(parts), sep)

RenderEquation(sides, at) ==
    LET term(x) == x.coef \o <<" ">> \o x.id \o (IF at THEN <<"@", "c">> ELSE <<>>)
        side(xs) == Join([k \in 1..Len(xs) |-> term(xs[k])], <<" ", "+", " ">>)
    IN  Join([k \in 1..Len(sides) |-> side(sides[k])], <<" ", "=", " ">>)

ReadEquation ==
    /\ fn = "none"
    /\ fn' = "read_equation"
    /\ output' = read_equation(RenderEquation(input.sides, input.at))
    /\ UNCHANGED <<cachevars, input>>

\* Equations of one, two and three sides over the coefficient texts.
SpecEquation ==
    InitHelper(LET CoefTexts == {<<"1">>, <<"3">>, <<"n">>, <<"2", "n">>, <<"(", "n", "-", "1", ")">>, <<"(", "n", "-", "2", ")">>,
                                 <<"0", ".", "5">>, <<"0", ".", "2", "5">>, <<"x">>}
                   EquationShapes == {<<l>> : l \in Sides(CoefTexts, MaxTerms)}
                                     \cup {<<l, r>> : l \in Sides(CoefTexts, MaxTerms), r \in Sides(CoefTexts, 1)}
                                     \cup {<<a, b, c>> : a \in Sides(CoefTexts, 1), b \in Sides(CoefTexts, 1), c \in Sides(CoefTexts, 1)}
               IN  [sides : EquationShapes, at : BOOLEAN])
    /\ [][ReadEquation]_vars

\* ------------------------------------------------- legacy recipes parser
\* _read_direction(dir): int(dir), or None when it is not an integer.
read_direction(dir) ==
    LET digits == IF dir # <<>> /\ dir[1] = "-" THEN Tail(dir) ELSE dir
    IN  IF digits = <<>> \/ ScanDigits(digits, 1) <= Len(digits) THEN PyNone
        ELSE IF dir[1] = "-" THEN [int |-> 0 - ParseInt(digits)] ELSE [int |-> ParseInt(digits)]

\* _m_template_reactions_legacy: the body of the loop for one row.
RecipeRow(reactions, row) ==
    LET rxn == read_equation(row.Equation)
        dir == read_direction(row.Direction)
    IN  IF rxn = PyNone \/ dir = PyNone THEN reactions
        ELSE Put(reactions, row.Reaction_ID,
                 [left |-> rxn.left, right |-> rxn.right, direction |-> dir.int,
                  main_left |-> Split(row.Main_left, ","), main_right |-> Split(row.Main_right, ",")])

RECURSIVE RecipeRows(_, _)
RecipeRows(reactions, rows) == IF rows = <<>> THEN reactions ELSE RecipeRows(RecipeRow(reactions, Head(rows)), Tail(rows))

\* _m_template_reactions_legacy(rxn_recipes_path): None when the file does
\* not exist.
m_template_reactions_legacy(file) == IF ~file.exists THEN PyNone ELSE RecipeRows(EmptyDict, file.rows)

\* The rows of a recipes file: a reaction id, an equation of one to three
\* sides whose left side holds a plain or an unknown coefficient, a direction
\* that is an integer or not, the main compounds.
RecipeFileRows ==
    LET r == <<[coef |-> <<"1">>, id |-> <<"M", "2">>]>>
        shapes == UNION {{<<l>>, <<l, r>>, <<l, r, r>>} : l \in Sides({<<"1">>, <<"x">>}, MaxTerms)}
    IN  {[Reaction_ID |-> id, shape |-> sh, Equation |-> RenderEquation(sh, FALSE), Direction |-> d,
          Main_left |-> <<"M", "1", ",", "M", "2">>, Main_right |-> <<"M", "2">>] :
            id \in {"RX1", "RX2"}, sh \in shapes, d \in {<<"-", "1">>, <<"x">>}}

\* The parse of the file; with it, what _read_equation returned for each row.
ParseRecipes ==
    /\ fn = "none"
    /\ fn' = "m_template_reactions_legacy"
    /\ output' = [reactions |-> m_template_reactions_legacy(input),
                  rxn |-> [i \in 1..Len(input.rows) |-> read_equation(input.rows[i].Equation)]]
    /\ UNCHANGED <<cachevars, input>>

SpecRecipes ==
    InitHelper({[exists |-> FALSE, rows |-> <<>>]} \cup {[exists |-> TRUE, rows |-> rows] : rows \in SeqsUpTo(RecipeFileRows, MaxRecipes)})
    /\ [][ParseRecipes]_vars

\* ---------------------------------------------------- legacy rules parser
\* _m_rr_reactions_legacy: the body of the loop for one row.  The rule gets
\* its dict; then the link of (rule, reaction) is assigned, in place of any
\* earlier one.  float() of the score or int() of the direction (the
\* conversion of _read_direction) raises ValueError inside the try: the row
\* leaves the rule's dict as it is.
RrLegacyRow(rr_reactions, row) ==
    LET t == row.Rule_ID
        r == row.Reaction_ID
        rule == IF t \in DOMAIN rr_reactions THEN rr_reactions[t] ELSE EmptyDict
        dir == read_direction(row.Rule_relative_direction)
    IN  IF Float(row.Score_normalized) = "ValueError" \/ dir = PyNone THEN Put(rr_reactions, t, rule)
        ELSE Put(rr_reactions, t, Put(rule, r, [rule_id |-> t, rule_score |-> Float(row.Score_normalized), reac_id |-> r, rel_direction |-> dir.int]))

RECURSIVE RrLegacyRows(_, _)
RrLegacyRows(rr_reactions, rows) == IF rows = <<>> THEN rr_reactions ELSE RrLegacyRows(RrLegacyRow(rr_reactions, Head(rows)), Tail(rows))

\* _m_rr_reactions_legacy(rules_rall_path): None when the file does not exist.
m_rr_reactions_legacy(file) == IF ~file.exists THEN PyNone ELSE RrLegacyRows(EmptyDict, file.rows)

ParseRulesLegacy ==
    /\ fn = "none"
    /\ fn' = "m_rr_reactions_legacy"
    /\ output' = m_rr_reactions_legacy(input)
    /\ UNCHANGED <<cachevars, input>>

\* The file is missing, or holds rows naming a rule, a reaction, a relative
\* direction (1, -1 or not a number) and a score (a number or not).
SpecRulesLegacy ==
    InitHelper({[exists |-> FALSE, rows |-> <<>>]}
               \cup {[exists |-> TRUE, rows |-> rows] :
                        rows \in SeqsUpTo([Rule_ID : {"R1", "R2"}, Reaction_ID : {"RX1", "RX2"},
                                           Rule_relative_direction : {<<"1">>, <<"-", "1">>, <<"x">>},
                                           Score_normalized : {<<"0", ".", "5">>, <<"x">>}], MaxRows)})
    /\ [][ParseRulesLegacy]_vars

\* ------------------------------------------------- new recipes parser
\* row['DIRECTION'] != reactions[id]['direction']: a str against an int.
\* Python's != between a str and an int is True whatever the values.
StrDiffersFromInt(text, n) == TRUE

\* _m_template_reactions: the body of the loop for one row.  A reaction seen
\* for the first time is stored, its sides swapped and its direction -1 when
\* the row is R2L; a reaction seen again has its direction set to 0 when
\* the row's DIRECTION differs from the stored direction.
TemplateRow(reactions, row) ==
    LET r == row.REACTION_ID
        substrates == [x \in {row.LEFT_IDS} |-> 1]
        products == [x \in {row.RIGHT_IDS} |-> 1]
    IN  IF r \notin DOMAIN reactions
        THEN Put(reactions, r,
                 IF row.DIRECTION = "R2L"
                 THEN [left |-> products, right |-> substrates, direction |-> -1, main_left |-> row.RIGHT_IDS, main_right |-> row.LEFT_IDS]
                 ELSE [left |-> substrates, right |-> products, direction |-> 1, main_left |-> row.LEFT_IDS, main_right |-> row.RIGHT_IDS])
        ELSE IF StrDiffersFromInt(row.DIRECTION, reactions[r].direction)
             THEN Put(reactions, r, [reactions[r] EXCEPT !.direction = 0])
             ELSE reactions

RECURSIVE TemplateRows(_, _)
TemplateRows(reactions, rows) == IF rows = <<>> THEN reactions ELSE TemplateRows(TemplateRow(reactions, Head(rows)), Tail(rows))

\* _m_template_reactions(metadata_path): None when the file does not exist.
m_template_reactions(file) == IF ~file.exists THEN PyNone ELSE TemplateRows(EmptyDict, file.rows)

ParseTemplates ==
    /\ fn = "none"
    /\ fn' = "m_template_reactions"
    /\ output' = m_template_reactions(input)
    /\ UNCHANGED <<cachevars, input>>

\* The file is missing, or holds rows naming a reaction, its direction, one
\* substrate and one product.
SpecTemplates ==
    InitHelper({[exists |-> FALSE, rows |-> <<>>]}
               \cup {[exists |-> TRUE, rows |-> rows] :
                        rows \in SeqsUpTo([REACTION_ID : {"RX1", "RX2"}, DIRECTION : {"L2R", "R2L"}, LEFT_IDS : {"M1", "M2"}, RIGHT_IDS : {"M3"}], MaxRows)})
    /\ [][ParseTemplates]_vars

\* --------------------------------------------------------- compound parser
\* The fields of a compound that the two tables both give.
StrcFields == {"formula", "name", "smiles", "inchi", "inchikey"}

\* _m_mnxm_strc, first pass: the rows of compounds.tsv that are not marked
\* invalid, each stored under its cid (None being "None").
RECURSIVE CompoundRows(_, _)
CompoundRows(cid_strc, rows) ==
    IF rows = <<>> THEN cid_strc
    ELSE IF Head(rows).valid # "True" THEN CompoundRows(cid_strc, Tail(rows))
    ELSE CompoundRows(Put(cid_strc, Head(rows).cid, [f \in StrcFields \cup {"cid"} |-> Head(rows)[f]]), Tail(rows))

\* The columns of chem_prop.tsv, '#' removed and in lower case, 'id' as
\* 'cid': the name is row[1] and the formula row[2].
\* _m_mnxm_strc, second pass: the body of the loop for one row of
\* chem_prop.tsv that is not a header.
PropRow(acc, row) ==
    LET PropHeader == <<"cid", "name", "formula", "inchi", "inchikey", "smiles">>
        tmp == [f \in Range(PropHeader) |-> LET v == row[CHOOSE i \in 1..Len(PropHeader) : PropHeader[i] = f] IN IF v \in {"", "NA"} THEN "None" ELSE v]
        mnxm == row[1]
        named == IF mnxm \notin DOMAIN acc.cid_name /\ tmp["name"] # "None" THEN Put(acc.cid_name, mnxm, tmp["name"]) ELSE acc.cid_name
    IN  IF mnxm \notin DOMAIN acc.cid_strc THEN [acc EXCEPT !.cid_name = named]
        ELSE [cid_name |-> named,
              cid_strc |-> Put(acc.cid_strc, mnxm,
                 [f \in DOMAIN acc.cid_strc[mnxm] |->
                    CASE f = "formula" -> row[3]
                      [] f = "name" -> row[2]
                      [] f \in {"inchi", "inchikey", "smiles"} /\ acc.cid_strc[mnxm][f] \in {"", "None"} /\ tmp[f] # "None" -> tmp[f]
                      [] OTHER -> acc.cid_strc[mnxm][f]])]

RECURSIVE PropRows(_, _)
PropRows(acc, rows) == IF rows = <<>> THEN acc ELSE PropRows(PropRow(acc, Head(rows)), Tail(rows))

\* _m_mnxm_strc(paths): compounds.tsv, then chem_prop.tsv when its path is
\* given.
m_mnxm_strc(paths) ==
    LET first == [cid_strc |-> CompoundRows(EmptyDict, paths.compounds), cid_name |-> EmptyDict]
    IN  IF paths.chem_prop_path THEN PropRows(first, paths.chem_prop) ELSE first

ParseStrc ==
    /\ fn = "none"
    /\ fn' = "m_mnxm_strc"
    /\ output' = m_mnxm_strc(input)
    /\ UNCHANGED <<cachevars, input>>

\* compounds.tsv holds rows for M1, valid or not, each field empty or not;
\* chem_prop.tsv, when its path is given, holds rows (id, name, formula,
\* InChI, InChIKey, SMILES), each field empty, 'NA' or not.
SpecStrc ==
    InitHelper(LET compounds == SeqsUpTo([valid : {"True", "False"}, cid : {"M1"}, formula : {"", "old"}, name : {"", "old"},
                                          smiles : {"", "old"}, inchi : {"", "old"}, inchikey : {"", "old"}], MaxCompounds)
                   cell == {"", "NA", "new"}
                   chem_prop == SeqsUpTo({"M1", "M2"} \X cell \X cell \X cell \X cell \X cell, MaxCompounds)
               IN  {[compounds |-> c, chem_prop_path |-> FALSE, chem_prop |-> <<>>] : c \in compounds}
                   \cup {[compounds |-> c, chem_prop_path |-> TRUE, chem_prop |-> q] : c \in compounds, q \in chem_prop})
    /\ [][ParseStrc]_vars

\* ------------------------------------------------- cross-reference parser
Mnx == <<"m", "n", "x">>

Deprecated == <<"d", "e", "p", "r", "e", "c", "a", "t", "e", "d">>

\* ''.join(parts)
RECURSIVE Concat(_)
Concat(parts) == IF parts = <<>> THEN <<>> ELSE Head(parts) \o Concat(Tail(parts))

\* A parser whose reverse index keeps the id of the latest row.
XrefRowLastWins(cid_xref, row) ==
    LET parts == Split(row[1], ":")
        dbName == IF Len(parts) = 1 \/ parts[1] = Deprecated THEN Mnx ELSE parts[1]
        dbId == IF Len(parts) = 1 THEN row[1] ELSE Concat(Tail(parts))
        forward == IF row[2] \in DOMAIN cid_xref THEN cid_xref[row[2]] ELSE EmptyDict
        ids == IF dbName \in DOMAIN forward THEN forward[dbName] ELSE <<>>
        withForward == Put(cid_xref, row[2], Put(forward, dbName, IF dbId \in Range(ids) THEN ids ELSE Append(ids, dbId)))
        reverse == IF dbName \in DOMAIN withForward THEN withForward[dbName] ELSE EmptyDict
    IN  IF row[1][1] = "#" THEN cid_xref ELSE Put(withForward, dbName, Put(reverse, dbId, row[2]))

\* _m_mnxm_xref: the body of the loop for one row (ext, id): the row is
\* passed over when it starts with '#'; else the foreign id is added to the
\* list of the id under the namespace, unless it is there, and the id is
\* recorded under the namespace and the foreign id, unless one is.
XrefRow(cid_xref, row) ==
    LET parts == Split(row[1], ":")
        dbName == IF Len(parts) = 1 \/ parts[1] = Deprecated THEN Mnx ELSE parts[1]
        dbId == IF Len(parts) = 1 THEN row[1] ELSE Concat(Tail(parts))
        forward == IF row[2] \in DOMAIN cid_xref THEN cid_xref[row[2]] ELSE EmptyDict
        ids == IF dbName \in DOMAIN forward THEN forward[dbName] ELSE <<>>
        withForward == Put(cid_xref, row[2], Put(forward, dbName, IF dbId \in Range(ids) THEN ids ELSE Append(ids, dbId)))
        reverse == IF dbName \in DOMAIN withForward THEN withForward[dbName] ELSE EmptyDict
    IN  IF row[1][1] = "#" THEN cid_xref
        ELSE IF dbId \in DOMAIN reverse THEN Put(withForward, dbName, reverse)
        ELSE Put(withForward, dbName, Put(reverse, dbId, row[2]))

\* What the loop body of _m_mnxm_xref and _m_mnxc_xref raises on a row, ""
\* when it raises nothing: row[0][0] on a row without fields (a blank line)
\* or with an empty first field, row[1] on a row of one field that is not a
\* comment.
XrefRowError(row) ==
    IF row = <<>> THEN "IndexError"
    ELSE IF row[1] = <<>> THEN "IndexError"
    ELSE IF row[1][1] # "#" /\ Len(row) < 2 THEN "IndexError"
    ELSE ""

\* The loop: no try around the body, an exception ends the parse and is
\* what the caller gets ([raise |-> its name]).
RECURSIVE XrefRows(_, _)
XrefRows(cid_xref, rows) ==
    IF rows = <<>> THEN cid_xref
    ELSE IF XrefRowError(Head(rows)) # "" THEN [raise |-> XrefRowError(Head(rows))]
    ELSE XrefRows(XrefRow(cid_xref, Head(rows)), Tail(rows))

\* _m_mnxm_xref(chem_xref_path)
m_mnxm_xref(rows) == XrefRows(EmptyDict, rows)

\* The rows of chem_xref.tsv: a comment, or a foreign id (deprecated, of a
\* namespace, with a second ':', or bare) and the compound id it stands for.
XrefFileRows ==
    LET exts == {Deprecated \o <<":", "M", "9">>, <<"M", "9">>, <<"c", "h", "e", "b", "i", ":", "1">>, <<"c", "h", "e", "b", "i", ":", "2">>,
                 <<"k", "e", "g", "g", ":", "C", ":", "1">>}
    IN  {<<<<"#", "c">>, <<>>>>} \cup {<<ext, id>> : ext \in exts, id \in {<<"M", "1">>, <<"M", "2">>}}

ParseXref ==
    /\ fn = "none"
    /\ fn' = "m_mnxm_xref"
    /\ output' = m_mnxm_xref(input)
    /\ UNCHANGED <<cachevars, input>>

SpecXref == InitHelper(SeqsUpTo(XrefFileRows, MaxRows)) /\ [][ParseXref]_vars

\* _deprecatedMNX(xref_path): for each row that is not a comment and whose
\* first field starts with 'deprecated:', the old id (the part after the
\* first ':') is mapped to row[1].  row[0][0], mnx[1] and row[1] raise
\* IndexError when there is no such element.
RECURSIVE deprecatedMNX(_)
deprecatedMNX(rows) ==
    IF rows = <<>> THEN EmptyDict
    ELSE LET acc == deprecatedMNX(SubSeq(rows, 1, Len(rows) - 1))
             row == rows[Len(rows)]
             mnx == Split(row[1], ":")
         IN  IF acc = [raise |-> "IndexError"] THEN acc
             ELSE IF row = <<>> THEN [raise |-> "IndexError"]
             ELSE IF row[1] = <<>> THEN [raise |-> "IndexError"]
             ELSE IF row[1][1] = "#" \/ mnx[1] # Deprecated THEN acc
             ELSE IF Len(mnx) < 2 \/ Len(row) < 2 THEN [raise |-> "IndexError"]
             ELSE Put(acc, mnx[2], row[2])

\* _m_mnxc_xref(comp_xref_path), the file being there: the pair (comp_xref,
\* deprecatedCompID_compid).  The foreign id of a namespace is put in lower
\* case; the reverse dict keeps the first compartment of a foreign id.
RECURSIVE m_mnxc_xref(_)
m_mnxc_xref(rows) ==
    IF rows = <<>> THEN [comp_xref |-> EmptyDict, deprecatedCompID_compid |-> EmptyDict]
    ELSE LET acc == m_mnxc_xref(SubSeq(rows, 1, Len(rows) - 1))
             row == rows[Len(rows)]
             parts == Split(row[1], ":")
             lower(c) == IF c = "C" THEN "c" ELSE IF c = "M" THEN "m" ELSE c
             joined == Concat(Tail(parts))
             dbName == IF Len(parts) = 1 \/ parts[1] = Deprecated THEN Mnx ELSE parts[1]
             dbCompId == IF Len(parts) = 1 THEN row[1] ELSE [i \in 1..Len(joined) |-> lower(joined[i])]
             forward == IF row[2] \in DOMAIN acc.comp_xref THEN acc.comp_xref[row[2]] ELSE EmptyDict
             ids == IF dbName \in DOMAIN forward THEN forward[dbName] ELSE <<>>
         IN  IF acc = [raise |-> "IndexError"] THEN acc
             ELSE IF XrefRowError(row) # "" THEN [raise |-> XrefRowError(row)]
             ELSE IF row[1][1] = "#" THEN acc
             ELSE [comp_xref |-> Put(acc.comp_xref, row[2], Put(forward, dbName, IF dbCompId \in Range(ids) THEN ids ELSE Append(ids, dbCompId))),
                   deprecatedCompID_compid |-> IF dbCompId \in DOMAIN acc.deprecatedCompID_compid THEN acc.deprecatedCompID_compid
                                               ELSE Put(acc.deprecatedCompID_compid, dbCompId, row[2])]

\* One of the three parsers called on a file of cross-references.
ParseLines ==
    /\ fn = "none"
    /\ \E p \in {"deprecatedMNX", "m_mnxm_xref", "m_mnxc_xref"} :
        /\ fn' = p
        /\ output' = CASE p = "deprecatedMNX" -> deprecatedMNX(input)
                        [] p = "m_mnxm_xref" -> m_mnxm_xref(input)
                        [] p = "m_mnxc_xref" -> m_mnxc_xref(input)
    /\ UNCHANGED <<cachevars, input>>

\* The rows of the file as csv.reader hands them over: the rows of
\* chem_xref.tsv, and a blank line (no field), a row whose first field is
\* empty, a row of one field.
SpecLines ==
    InitHelper(SeqsUpTo(XrefFileRows \cup {<<>>, <<<<>>, <<"M", "1">>>>, <<<<"c", "h", "e", "b", "i", ":", "1">>>>}, MaxRows))
    /\ [][ParseLines]_vars

\* --------------------------------------------------------- redirect lookup
\* table[x]: the value, or the exception: TypeError when the table is None,
\* KeyError when x is not a key of it.
GetItem(table, x) == IF table = PyNone THEN "TypeError" ELSE IF x \in DOMAIN table THEN table[x] ELSE "KeyError"

\* A lookup that lets the exception out.
CheckUncaught(cid, deprecatedCID_cid) == GetItem(deprecatedCID_cid, cid)

\* _checkCIDdeprecated(cid, deprecatedCID_cid)
checkCIDdeprecated(cid, deprecatedCID_cid) ==
    IF GetItem(deprecatedCID_cid, cid) \in {"KeyError", "TypeError"} THEN cid ELSE GetItem(deprecatedCID_cid, cid)

\* _checkRIDdeprecated(rid, deprecatedRID_rid)
checkRIDdeprecated(rid, deprecatedRID_rid) ==
    IF GetItem(deprecatedRID_rid, rid) \in {"KeyError", "TypeError"} THEN rid ELSE GetItem(deprecatedRID_rid, rid)

\* The ids looked up and the tables: None, the empty table, the tables from
\* some of the ids to ids.
RedirectIds == {"M1", "M2", "M3"}

CheckCID ==
    /\ fn = "none"
    /\ fn' = "checkCIDdeprecated"
    /\ output' = checkCIDdeprecated(input.x, input.table)
    /\ UNCHANGED <<cachevars, input>>

CheckRID ==
    /\ fn = "none"
    /\ fn' = "checkRIDdeprecated"
    /\ output' = checkRIDdeprecated(input.x, input.table)
    /\ UNCHANGED <<cachevars, input>>

SpecRedirect ==
    InitHelper([x : RedirectIds, table : {PyNone} \cup UNION {[keys -> RedirectIds] : keys \in SUBSET RedirectIds}])
    /\ [][CheckCID \/ CheckRID]_vars

\* The values equal to x that differ from it by the order in which the items
\* of its dicts were inserted.
RECURSIVE Reordered(_)
Reordered(x) ==
    LET n == Len(Val(x))
        parts == {c \in [1..n -> UNION {Reordered(Val(x)[i][2]) : i \in 1..n}] : \A i \in 1..n : c[i] \in Reordered(Val(x)[i][2])}
        elems == {c \in [1..n -> UNION {Reordered(Val(x)[i]) : i \in 1..n}] : \A i \in 1..n : c[i] \in Reordered(Val(x)[i])}
    IN  CASE Tag(x) = "dict" -> {J("dict", [i \in 1..n |-> <<Val(x)[p[i]][1], c[p[i]]>>]) : p \in {q \in [1..n -> 1..n] : \A i, j \in 1..n : i # j => q[i] # q[j]}, c \in parts}
          [] Tag(x) = "list" -> {J("list", c) : c \in elems}
          [] OTHER -> {x}

\* ------------------------------------------------------------------ claims
\* C1, as stated: Load never places in memory the content of an artifact
\* file whose fingerprint differs from the registry's: every artifact a Load
\* deserializes has, at that moment, the expected fingerprint (whatever
\* do_not_dwnl_cache is).
C1_LoadReadsOnlyVerified == op = "Load" => \A i \in Events("read") : Verifies(log[i].art, log[i].n)

\* C2, as stated: when the download of an absent artifact raised a
\* connection error and the raw inputs are all there and valid (so that Build
\* succeeds), Load returns normally and the attribute holds the built content.
C2_FailedDownloadFallsBackToBuild ==
    (op = "Load" /\ Events("download_failed") # {} /\ \A f \in RawFiles : raw[f] = "good")
        => result = "ok" /\ \A i \in Events("download_failed") : mem[log[i].n] = "built"

\* C3: within one Load (called directly or by a lookup) the tiers come in
\* order: an artifact is downloaded only when it is absent from disk at that
\* moment, no download follows a read, Build is called only after a read of
\* this call failed, hence never when every read succeeds.
C3_TiersInOrder ==
    op \in {"Load"} \cup Lookups =>
        /\ \A i \in Events("download") : log[i].art[log[i].n] = "absent"
        /\ \A i \in Events("download") : \A j \in Events("read") \cup Events("read_failed") : i < j
        /\ \A i \in EventsOn("call", "Build") : \E j \in Events("read_failed") : j < i
        /\ Events("read_failed") = {} => EventsOn("call", "Build") = {}

\* C3's case: one Load that downloaded an artifact, failed to read another,
\* called Build and returned.
C3_Witness == op = "Load" /\ result = "ok" /\ Events("download") # {} /\ EventsOn("return", "Build") # {}

C5_VerifiedArtifactNotRewritten == \A i \in Events("write") : ~Verifies(log[i].art, log[i].n)

\* The attribute each derived attribute is computed from (the argument Build
\* passes to its _gen_ function).
AttrDeps == {<<"inchikey_cid", "cid_strc">>, <<"chebi_cid", "cid_xref">>}

\* C6, as stated: whenever Build writes the artifact of A, which depends on
\* B, the artifact of B exists on disk and has the expected fingerprint.
C6_DependencyVerifiedBeforeWrite ==
    \A d \in AttrDeps : \A i \in EventsOn("write", d[1]) : Verifies(log[i].art, d[2])

\* C6, amended: whenever Build writes the artifact of A, which depends on B,
\* the artifact of B exists on disk, and it either has the expected
\* fingerprint or was written earlier by this same Build.
C6_DependencyPresentBeforeWrite ==
    \A d \in AttrDeps : \A i \in EventsOn("write", d[1]) :
        /\ log[i].art[d[2]] # "absent"
        /\ Verifies(log[i].art, d[2]) \/ \E j \in EventsOn("write", d[2]) : j < i

\* C6's case: a Build that wrote cid_strc, whose file does not have the
\* registry's fingerprint, then inchikey_cid, and returned.
C6_Witness ==
    /\ op = "Build" /\ result = "ok"
    /\ \E i \in EventsOn("write", "inchikey_cid") : ~Verifies(log[i].art, "cid_strc") /\ \E j \in EventsOn("write", "cid_strc") : j < i

\* C7, as stated: a raw input file Build finds present with other bytes than
\* the registry declares is downloaded again after that check.
C7_CorruptedRawRefetched ==
    \A i \in Events("check_raw") : log[i].raw[log[i].n] = "bad" => \E j \in EventsOn("download_raw", log[i].n) : i < j

\* C8: Build downloads a raw input file at most once; when the file the
\* download left does not have the declared fingerprint, the file is
\* rejected at once, Build raises FileCorruptedError without returning, its
\* caller Load raises it too, and the call has written no artifact.
C8_OneFetchThenFail ==
    /\ \A f \in RawFiles : Cardinality(EventsOn("download_raw", f)) <= 1
    /\ \A i \in Events("download_raw") : log[i + 1].raw[log[i].n] = "bad" =>
            /\ log[i + 1].k = "raw_rejected" /\ log[i + 1].n = log[i].n
            /\ BuildRaised
            /\ Events("write") = {}
            /\ op \in {"Build", "Load"} => result = "FileCorruptedError"

\* C8's case: a Build that downloaded a raw file, got other bytes than
\* declared, and raised.
C8_Witness ==
    /\ op = "Build" /\ result = "FileCorruptedError"
    /\ \E i \in Events("download_raw") : log[i + 1].k = "raw_rejected" /\ log[i + 1].raw[log[i].n] = "bad"

\* C9, as stated: when a download failed or a raw file was rejected as
\* corrupted, the public call that was running raises; it does not return.
C9_AcquisitionErrorsPropagate ==
    Events("download_failed") \cup Events("download_raw_failed") \cup Events("raw_rejected") # {} => result # "ok"

\* C10, as stated: when a parser returns None because its raw file is
\* missing, Build does not return normally and writes no artifact for that
\* attribute.
C10_ParserNoneFailsBuild ==
    \A i \in Events("parser_none") : BuildRaised /\ EventsOn("write", log[i].n) = {}

\* The entries where a raw input could not be obtained or did not verify.
RawFailures == Events("raw_rejected") \cup Events("download_raw_failed")

\* C11, as stated: when a raw input could not be obtained or verified, the
\* Build still handles (writes, or keeps as already built) the artifact of
\* every attribute that does not depend on that raw file.
C11_UnrelatedAttributesStillBuilt ==
    \A i \in RawFailures : \A a \in AllAttrs :
        log[i].n \notin FileDeps(a) => EventsOn("write", a) \cup EventsOn("skip", a) # {}

\* C11, amended: a raw input that cannot be obtained or verified is fatal
\* for the whole Build: Build raises while it ensures the raw inputs, before
\* any _gen_ function runs, so no artifact is generated, kept or written by
\* that Build and the cache directory is as the call found it.
C11_RawFailureAbortsBuild ==
    RawFailures # {} =>
        /\ BuildRaised
        /\ Events("parse") \cup Events("parser_none") \cup Events("skip") \cup Events("write") = {}
        /\ \A i \in EventsOn("call", "Build") : log[i].art = art

\* C11's case: a Build that rejected the recipes file and raised, leaving
\* cid_strc, which is not made from it, unbuilt.
C11_Witness ==
    /\ op = "Build" /\ result = "FileCorruptedError"
    /\ EventsOn("raw_rejected", "recipes") # {}
    /\ art["cid_strc"] = "absent"

C13_LoadEmptyListLoadsAll ==
    (op = "Load" /\ arg.kind = "list" /\ arg.v = <<>> /\ result = "ok") => \A a \in Range(reg.attrs) : mem[a] # "unset"

\* C14, as stated: after Load(S) for a non-empty S (the constructor with
\* load enabled calls Load with the registry's list) returns normally, every
\* attribute of S is resident: get returns a mapping read from an artifact,
\* never None.
C14_LoadedAttributesResident ==
    (op = "Load" /\ arg.kind # "none" /\ arg.v # <<>> /\ result = "ok") =>
        \A a \in Range(arg.v) : GetValue(mem[a]) # "None"

\* The calls of one function in a log.
CallsIn(l, name) == {i \in DOMAIN l : l[i].k = "call" /\ l[i].n = name}

\* C15, as stated: a lookup whose attribute is not resident (never set, or
\* None) calls Load once, for that attribute alone, and when that Load
\* leaves a mapping and the id is a key it returns the record or the key
\* set; a lookup whose attribute is resident calls no Load.
C15_LookupLoadsItsAttribute ==
    [][op' \in Lookups =>
            /\ mem[arg'[1]] \in {"unset", "None"} =>
                    /\ Cardinality(CallsIn(log', "Load")) = 1
                    /\ attributes_list' = <<arg'[1]>>
                    /\ \A i \in DOMAIN log' : log'[i].k \in {"check", "download", "read", "read_failed"} => log'[i].n = arg'[1]
                    /\ (arg'[2] = "known" /\ mem'[arg'[1]] \in {"built", "other"}) => ret' \in {"record", "keys"}
            /\ mem[arg'[1]] \in {"built", "other"} => CallsIn(log', "Load") = {}]_vars

\* C16: a lookup of one record for an id that is not a key of the attribute
\* returns None and does not raise; when the attribute was resident, the
\* call leaves the instance and the two directories as they were.
C16_UnknownIdReturnsNone ==
    [][(op' = "get_object" /\ arg'[2] = "unknown") =>
            /\ result' = "ok" /\ ret' = "None"
            /\ mem[arg'[1]] \in {"built", "other"} =>
                    mem' = mem /\ attributes_list' = attributes_list /\ art' = art /\ raw' = raw]_vars

\* C16's case: an id that is not a key, looked up in an attribute that was
\* resident before the call (the call made no Load).
C16_Witness ==
    /\ op = "get_object" /\ arg[2] = "unknown" /\ ret = "None"
    /\ mem[arg[1]] = "built" /\ CallsIn(log, "Load") = {}

\* C17: get(name) for a registered attribute that was never loaded on the
\* instance returns None: it does not raise and returns no other value.
C17_GetNeverLoadedReturnsNone ==
    (op = "get" /\ mem[arg[1]] = "unset") => result = "ok" /\ ret = "None"

\* C17's case: get of an attribute never loaded, on an instance where
\* another attribute is resident.
C17_Witness ==
    /\ op = "get" /\ mem[arg[1]] = "unset" /\ ret = "None"
    /\ \E a \in AllAttrs : mem[a] = "built"

\* C18, as stated: with do_not_dwnl_cache true, Load downloads no artifact
\* and a read that fails on an absent artifact is followed at once by Build;
\* with do_not_dwnl_cache false, every listed artifact that was absent when
\* Load was called and has a URL is downloaded before Build is called.
C18_DownloadPermission ==
    op = "Load" =>
        /\ dnl => /\ Events("download") = {}
                  /\ \A i \in Events("read_failed") : log[i].art[log[i].n] = "absent" => log[i + 2].k = "call" /\ log[i + 2].n = "Build"
        /\ ~dnl => \A i \in CallsIn(log, "Build") : \A a \in Range(attributes_list) :
                        (log[1].art[a] = "absent" /\ reg.url[a]) => \E j \in EventsOn("download", a) : j < i

\* C19, as stated: when the URL of the raw files is empty, a raw file that
\* is missing makes Build raise, and download is never called.
C19_EmptySourceUrlFailsFast ==
    ~reg.src_url =>
        /\ Events("download_raw") = {}
        /\ \A i \in Events("check_raw") : log[i].raw[log[i].n] = "absent" => BuildRaised

C21_RoundTrip == fn = "store_load" => PyEq(output.loaded, input.data)

\* A dict whose items are not in key order, holding a null and a nested
\* list, went through each kind of file.
C21_Witness ==
    /\ fn = "store_load"
    /\ Tag(input.data) = "dict"
    /\ Len(Val(input.data)) = 2
    /\ Val(input.data)[1][1] = <<"b">>
    /\ Val(input.data)[1][2] = J("null", <<>>)
    /\ Tag(Val(input.data)[2][2]) = "list"
    /\ Len(Val(Val(input.data)[2][2])) = 2
    /\ output.file.gzip
    /\ Val(output.loaded) # Val(input.data)

DirectionsOf(rows, t, r) == {rows[i].DIRECTION : i \in {j \in 1..Len(rows) : rows[j].TEMPLATE_ID = t /\ rows[j].REACTION_ID = r}}

\* C23: the rule-link parser stores a link for exactly the pairs (rule id,
\* reaction id) its rows name, one per pair however many rows name it; the
\* link's rel_direction is 0 if and only if the rows of the pair hold both
\* L2R and R2L, in any order and whatever follows, and otherwise 1 for L2R
\* and -1 for R2L; the parser returns a mapping (it does not raise).
C23_DuplicateLinksMerge ==
    (fn = "m_rr_reactions" /\ input.exists) =>
        /\ output # PyNone
        /\ \A t \in {"R1", "R2"}, r \in {"RX1", "RX2"} :
            LET dirs == DirectionsOf(input.rows, t, r)
            IN  /\ (t \in DOMAIN output /\ r \in DOMAIN output[t]) <=> dirs # {}
                /\ dirs # {} =>
                    /\ output[t][r].rel_direction = 0 <=> dirs = {"L2R", "R2L"}
                    /\ dirs = {"L2R"} => output[t][r].rel_direction = 1
                    /\ dirs = {"R2L"} => output[t][r].rel_direction = -1

\* Three rows for the pair (R1, RX1), R2L then L2R then R2L again, gave one
\* link of direction 0.
C23_Witness ==
    /\ fn = "m_rr_reactions"
    /\ Len(input.rows) = 3
    /\ \A i \in 1..3 : input.rows[i].TEMPLATE_ID = "R1" /\ input.rows[i].REACTION_ID = "RX1"
    /\ input.rows[1].DIRECTION = "R2L"
    /\ input.rows[2].DIRECTION = "L2R"
    /\ input.rows[3].DIRECTION = "R2L"
    /\ DOMAIN output = {"R1"}
    /\ DOMAIN output["R1"] = {"RX1"}
    /\ output["R1"]["RX1"].rel_direction = 0

\* The coefficients the specification documents for these tokens.
Documented ==
    {<<<<"n">>, Num(1, <<>>)>>, <<<<"2", "n">>, Num(2, <<>>)>>, <<<<"(", "n", "-", "1", ")">>, Num(0, <<>>)>>,
     <<<<"(", "n", "-", "2", ")">>, Num(-1, <<>>)>>, <<<<"3">>, Num(3, <<>>)>>, <<<<"0", ".", "5">>, Num(0, <<"5">>)>>}

\* C24, as stated: in the sides _read_equation returns, a compound has the
\* documented coefficient of its token: "n" 1, "2n" 2, "(n-1)" 0, "(n-2)" -1,
\* "3" 3 and "0.5" 0.5.
C24_DocumentedCoefficients ==
    (fn = "read_equation" /\ output # PyNone) =>
        \A s \in 1..2 : \A k \in 1..Len(input.sides[s]) : \A d \in Documented :
            LET term == input.sides[s][k]
                side == IF s = 1 THEN output.left ELSE output.right
            IN  (term.coef = d[1] /\ \A l \in (k + 1)..Len(input.sides[s]) : input.sides[s][l].id # term.id) =>
                    term.id \in DOMAIN side /\ side[term.id] = d[2]

\* The rows of the recipes file that name the reaction id.
RowsOf(id) == {i \in 1..Len(input.rows) : input.rows[i].Reaction_ID = id}

\* Row i holds a coefficient that is neither in the rescue table nor a number.
UnknownCoefficient(i) ==
    \E s \in 1..Len(input.rows[i].shape) : \E k \in 1..Len(input.rows[i].shape[s]) :
        LET c == input.rows[i].shape[s][k].coef
        IN  Float(c) = "ValueError" /\ \A p \in DEFAULT_STOICHIO_RESCUE : p[1] # c

\* C25, as stated: a reaction id whose every row holds a coefficient that is
\* neither in the rescue table nor numeric is absent from the output of the
\* legacy parser.
C25_UnknownCoefficientSkipsRow ==
    (fn = "m_template_reactions_legacy" /\ input.exists) =>
        \A id \in {"RX1", "RX2"} :
            (RowsOf(id) # {} /\ \A i \in RowsOf(id) : UnknownCoefficient(i)) => id \notin DOMAIN output.reactions

\* The '=' signs of an equation.
EqualsSigns(eq) == Cardinality({i \in 1..Len(eq) : eq[i] = "="})

\* C26: _read_equation returns None, and nothing else, for every equation
\* that does not hold exactly one '='; the legacy parser leaves out a
\* reaction id all of whose rows are such, and goes on: a reaction id with a
\* row of exactly one '=' and an integer direction is in the output, with
\* the sides of the last such row.
C26_NotOneEqualsSkipsRow ==
    (fn = "m_template_reactions_legacy" /\ input.exists) =>
        /\ \A i \in 1..Len(input.rows) : EqualsSigns(input.rows[i].Equation) # 1 <=> output.rxn[i] = PyNone
        /\ output.reactions # PyNone
        /\ \A id \in {"RX1", "RX2"} :
            LET kept == {i \in RowsOf(id) : EqualsSigns(input.rows[i].Equation) = 1 /\ read_direction(input.rows[i].Direction) # PyNone}
                last == CHOOSE i \in kept : \A j \in kept : j <= i
            IN  /\ id \in DOMAIN output.reactions <=> kept # {}
                /\ kept # {} => /\ output.reactions[id].left = output.rxn[last].left
                                /\ output.reactions[id].right = output.rxn[last].right

\* A row without '=' for RX1, then a row with exactly one '=' for RX2: RX1
\* is left out and RX2 is parsed.
C26_Witness ==
    /\ fn = "m_template_reactions_legacy"
    /\ Len(input.rows) = 2
    /\ input.rows[1].Reaction_ID = "RX1"
    /\ Len(input.rows[1].shape) = 1
    /\ input.rows[1].shape[1] # <<>>
    /\ input.rows[2].Reaction_ID = "RX2"
    /\ Len(input.rows[2].shape) = 2
    /\ output.rxn[1] = PyNone
    /\ DOMAIN output.reactions = {"RX2"}
    /\ output.reactions["RX2"].right = (<<"M", "2">> :> Num(1, <<>>))

\* C27, as stated: a field of a compound (formula, name, SMILES, InChI,
\* InChIKey) that has a value after the first pass of the compound parser has
\* the same value when the parser returns.
C27_SecondPassFillsGapsOnly ==
    fn = "m_mnxm_strc" =>
        LET first == CompoundRows(EmptyDict, input.compounds)
        IN  \A cid \in DOMAIN first : \A f \in StrcFields :
                first[cid][f] \notin {"", "None"} => output.cid_strc[cid][f] = first[cid][f]

\* The namespace of a foreign id: the text before its first ':', 'mnx' when
\* that is 'deprecated' or when there is no ':'.
NamespaceOf(ext) ==
    LET e == ScanTo(ext, 1, {":"})
    IN  IF e > Len(ext) \/ SubSeq(ext, 1, e - 1) = Deprecated THEN Mnx ELSE SubSeq(ext, 1, e - 1)

\* The foreign id itself: the text after the namespace, its ':' left out.
ForeignOf(ext) ==
    LET e == ScanTo(ext, 1, {":"})
    IN  IF e > Len(ext) THEN ext ELSE SelectSeq(SubSeq(ext, e + 1, Len(ext)), LAMBDA c : c # ":")

\* C28: for each row (ext, id) of the cross-reference table that is not a
\* comment, the result lists the foreign id exactly once under the id and
\* the namespace, and gives, under the namespace and the foreign id, the id
\* of the first row that mentions them; every such reverse entry i has the
\* foreign id in its own list.
C28_XrefForwardAndReverse ==
    fn = "m_mnxm_xref" =>
        LET rows == {i \in 1..Len(input) : input[i][1][1] # "#"}
        IN  \A i \in rows :
                LET ns == NamespaceOf(input[i][1])
                    f == ForeignOf(input[i][1])
                    id == input[i][2]
                    first == CHOOSE j \in rows : /\ NamespaceOf(input[j][1]) = ns /\ ForeignOf(input[j][1]) = f
                                                 /\ \A l \in rows : (NamespaceOf(input[l][1]) = ns /\ ForeignOf(input[l][1]) = f) => j <= l
                IN  /\ id \in DOMAIN output /\ ns \in DOMAIN output[id]
                    /\ Cardinality({k \in 1..Len(output[id][ns]) : output[id][ns][k] = f}) = 1
                    /\ ns \in DOMAIN output /\ f \in DOMAIN output[ns]
                    /\ output[ns][f] = input[first][2]
                    /\ f \in Range(output[output[ns][f]][ns])

\* 'deprecated:M9' for M1, then the bare 'M9' for M2, then 'deprecated:M9'
\* for M2 again: M9 is listed once under each id and 'mnx', and the reverse
\* entry is M1.
C28_Witness ==
    /\ fn = "m_mnxm_xref"
    /\ input = <<<<Deprecated \o <<":", "M", "9">>, <<"M", "1">>>>, <<<<"M", "9">>, <<"M", "2">>>>, <<Deprecated \o <<":", "M", "9">>, <<"M", "2">>>>>>
    /\ output[<<"M", "1">>][Mnx] = <<<<"M", "9">>>>
    /\ output[<<"M", "2">>][Mnx] = <<<<"M", "9">>>>
    /\ output[Mnx][<<"M", "9">>] = <<"M", "1">>

\* C29: the redirect lookups return table[x] when x is a key of the table
\* and x itself otherwise, the empty table and a missing table (None)
\* included; what they return is never an exception.
C29_RedirectOrUnchanged ==
    fn \in {"checkCIDdeprecated", "checkRIDdeprecated"} =>
        /\ output \in RedirectIds
        /\ output = IF input.table # PyNone /\ input.x \in DOMAIN input.table THEN input.table[input.x] ELSE input.x

\* A lookup in a missing table gave the id back.
C29_Witness ==
    /\ fn = "checkCIDdeprecated"
    /\ input.table = PyNone
    /\ output = input.x

\* C30, as stated: a Load of an attribute whose value is in memory when the
\* call is made does not read the attribute's artifact file, and leaves the
\* value in memory as it was.
C30_LoadSkipsResident ==
    [][op' = "Load" =>
        \A a \in Range(attributes_list') :
            mem[a] \in {"built", "other"} =>
                /\ \A i \in 1..Len(log') : ~(log'[i].k = "read" /\ log'[i].n = a)
                /\ mem'[a] = mem[a]]_vars

\* C31, as stated: when Load returns normally, the value in memory of every
\* attribute of its list is what the attribute's artifact file holds at that
\* moment, also when Build ran between the two passes.
C31_ResidentEqualsDisk ==
    (op = "Load" /\ arg.kind # "none" /\ result = "ok") =>
        \A a \in Range(attributes_list) : LoadJsonError(art[a]) = "" /\ mem[a] = LoadJson(art[a])

\* C32, as stated: after a lookup whose Load failed (Load was entered and did
\* not return, and the lookup returned None), the next lookup on the same
\* attribute calls Load again.
C32_FailedLoadRetried ==
    [][(/\ op \in Lookups
        /\ EventsOn("call", "Load") # {}
        /\ EventsOn("return", "Load") = {}
        /\ op' \in Lookups
        /\ arg'[1] = arg[1])
       => \E i \in DOMAIN log' : log'[i].k = "call" /\ log'[i].n = "Load"]_vars

\* C33, as stated: no construction of another instance changes the registry
\* that the calls on the instance read.
C33_InstancesIsolated == [][op' = "__init__" => reg' = reg]_vars

\* The attributes of a list and the attributes they are derived from.
WithDeps(lst) == Range(lst) \cup {d[2] : d \in {e \in AttrDeps : e[1] \in Range(lst)}}

\* C34, as stated: a Load that called Build downloaded raw files and wrote
\* artifacts only for the attributes of its list and the attributes these
\* are derived from; the artifact of every other attribute is as it was
\* when Load was called.
C34_BuildRestrictedToRequested ==
    (op = "Load" /\ EventsOn("call", "Build") # {}) =>
        /\ \A i \in Events("write") : log[i].n \in WithDeps(attributes_list)
        /\ \A i \in Events("download_raw") : \E a \in WithDeps(attributes_list) : log[i].n \in FileDeps(a)
        /\ \A a \in AllAttrs \ WithDeps(attributes_list) : art[a] = log[1].art[a]

\* C35: a Load changes the value in memory of no attribute outside its list
\* (the list it was given, or the instance's list when it was given []): one
\* that was resident keeps its value and one that was not does not become
\* resident.
C35_LoadTouchesOnlyRequested ==
    [][op' = "Load" => \A a \in AllAttrs \ Range(attributes_list') : mem'[a] = mem[a]]_vars

\* C35's case: Load(['rr_reactions']) returned on an instance where an
\* earlier call left cid_strc resident; rr_reactions is resident, cid_strc is
\* as it was and nothing else is set.
C35_Witness ==
    /\ op = "Load" /\ result = "ok" /\ nops = 2
    /\ attributes_list = <<"rr_reactions">>
    /\ mem["rr_reactions"] = "built"
    /\ mem["cid_strc"] = "built"
    /\ \A a \in AllAttrs \ {"rr_reactions", "cid_strc"} : mem[a] = "unset"

\* C36, as stated: a Load that may download, with a listed attribute whose
\* URL is empty and whose artifact is absent at the call, never calls download
\* for that attribute and does not raise MissingSchema; unless a download
\* failed, it calls download for every other listed attribute that has a URL
\* and whose artifact is absent at the call, and goes on to
\* _check_or_load_cache.
C36_EmptyUrlSkipsOnlyThatAttribute ==
    (/\ op = "Load" /\ arg.kind # "none" /\ ~dnl
     /\ \E b \in Range(attributes_list) : ~reg.url[b] /\ log[1].art[b] = "absent")
    => /\ \A b \in Range(attributes_list) : ~reg.url[b] => EventsOn("download", b) = {}
       /\ result # "MissingSchema"
       /\ Events("download_failed") = {} =>
            /\ \A a \in Range(attributes_list) : (reg.url[a] /\ log[1].art[a] = "absent") => EventsOn("download", a) # {}
            /\ EventsOn("call", "_check_or_load_cache") # {}

\* The attributes a registry may leave out.
Optional == {"inchikey_cid", "cid_xref", "chebi_cid", "comp_xref", "deprecatedCompID_compid"}

\* C37, as stated: under a registry without the optional attributes, Build
\* does not raise KeyError; when it returns, it has written nothing for the
\* optional attributes and the artifacts of cid_strc, rr_reactions and
\* template_reactions exist.
C37_BuildToleratesMinimalRegistry ==
    (op = "Build" /\ \A a \in Optional : ~Registered(a)) =>
        /\ result # "KeyError"
        /\ result = "ok" =>
            /\ \A i \in Events("write") : log[i].n \notin Optional
            /\ \A a \in AllAttrs \ Optional : art[a] # "absent"

\* The relative directions of the rows of the legacy rules file for the
\* pair (t, r) that the parser converts (a numeric score and direction).
LegacyDirectionsOf(t, r) ==
    {read_direction(input.rows[i].Rule_relative_direction).int :
        i \in {j \in 1..Len(input.rows) :
                /\ input.rows[j].Rule_ID = t /\ input.rows[j].Reaction_ID = r
                /\ Float(input.rows[j].Score_normalized) # "ValueError"
                /\ read_direction(input.rows[j].Rule_relative_direction) # PyNone}}

\* C38, as stated: the legacy rule-link parser stores a rel_direction of 0
\* for every pair (rule id, reaction id) whose rows give both directions.
C38_LegacyConflictGivesZero ==
    (fn = "m_rr_reactions_legacy" /\ input.exists) =>
        \A t \in {"R1", "R2"}, r \in {"RX1", "RX2"} :
            Cardinality(LegacyDirectionsOf(t, r)) > 1 => output[t][r].rel_direction = 0

\* C39, as stated: the new-schema template-reaction parser stores direction
\* 0 for a reaction only when two of its rows disagree on DIRECTION.
C39_SameDirectionKept ==
    (fn = "m_template_reactions" /\ input.exists) =>
        \A r \in DOMAIN output :
            output[r].direction = 0 =>
                \E i, j \in 1..Len(input.rows) :
                    /\ input.rows[i].REACTION_ID = r /\ input.rows[j].REACTION_ID = r
                    /\ input.rows[i].DIRECTION # input.rows[j].DIRECTION

\* The rows a cross-reference parser can read: at least two fields, the
\* first one not empty.
WellFormed(rows) == SelectSeq(rows, LAMBDA row : Len(row) >= 2 /\ row[1] # <<>>)

\* C40, as stated: _deprecatedMNX, _m_mnxm_xref and _m_mnxc_xref raise on no
\* row, and return what they return for the file without its malformed rows
\* (blank, with an empty first field, or with fewer than two fields).
C40_MalformedRowsSkipped ==
    /\ fn = "deprecatedMNX" => output = deprecatedMNX(WellFormed(input))
    /\ fn = "m_mnxm_xref" => output = m_mnxm_xref(WellFormed(input))
    /\ fn = "m_mnxc_xref" => output = m_mnxc_xref(WellFormed(input))

====
